---- MODULE Spec2Model ----
(***************************************************************************)
(* A model of the fDNS resolver plug-in (src/fDNS/fDNS.cpp, v0.66).        *)
(*                                                                         *)
(* The shared configuration (g_currentDnsServer, g_dnsInitialized,         *)
(* g_channel) is changed by Initialize / Uninitialize / SetServer, each of *)
(* which runs wholly under g_dnsMutex and is therefore one atomic action.  *)
(* A resolving call (Resolve, Reverse, ResolveExtended) is a sequence of   *)
(* steps: gating, server snapshot, dispatch, query issuance, the wait loop *)
(* (ares_fds / ares_timeout / select / ares_process) and the return.       *)
(* The c-ares session, select() and the OS resolver are external: their    *)
(* outcomes are nondeterministic choices from small sets.                  *)
(***************************************************************************)
EXTENDS Integers, Sequences, FiniteSets, TLC

\* ------------------------------------------------------------------ bounds
\* timeout arguments are drawn from -1 .. MaxTimeoutArg
MaxTimeoutArg == 1
\* sub-second intervals reported by ares_timeout, in ms
MaxTvMs == 1
\* whole-second intervals reported by ares_timeout
MaxTvSec == 2
\* readiness waits with a positive interval per call
MaxCycles == 2
\* v0.4: library setups a Reverse call left without cleanup, after which no
\* further call is started
MaxLeaks == 1

\* ------------------------------------------------------ program constants
DEFAULT_TIMEOUT == 3000
ErrNotInitialized == 1
ErrInvalidInput == 956
ErrNone == 0

\* ------------------------------------------------------------ input values
GoodServers == {"203.0.113.1"}
BadServers == {"not a server"}
ServerSpecs == {""} \cup GoodServers \cup BadServers
Hostnames == {"", "example.invalid"}
\* the record kinds the custom server has entries for (it answers the queries
\* of every other kind with an error, an empty or an unusable message)
AnsweredKinds == {"A", "MX"}
Addresses == {"", "not-an-ip", "192.0.2.1"}
TimeoutArgs == -1 .. MaxTimeoutArg

\* dataVect of a resolving call: the text argument, optionally a timeout
DataVects(texts) ==
    {<<>>} \cup {<<t>> : t \in texts} \cup {<<t, ms>> : t \in texts, ms \in TimeoutArgs}

\* ares_set_servers_ports_csv accepts a spec only if it is well formed
CsvWellFormed(spec) == spec \in GoodServers

\* inet_pton(AF_INET, ...) == 1
IsIPv4(text) == text = "192.0.2.1"

\* a channel pointer: <<>> is nullptr, <<s>> a session bound to server list s
\* ("" = the system's default servers)
NullChannel == <<>>
ChannelOn(spec) == <<spec>>

VARIABLES
    g_currentDnsServer,   \* static std::string g_currentDnsServer
    g_dnsInitialized,     \* static bool g_dnsInitialized
    g_channel,            \* static ares_channel g_channel
    libRefs,              \* ares_library_init calls not yet matched by a cleanup
    pc,                   \* position of the resolving call in progress
    call,                 \* locals of the resolving call in progress
    ret,                  \* what the last completed call returned and did
    g_dnsMutex,           \* static std::mutex g_dnsMutex: the thread that owns it
    peer                  \* a configuration call running on a second host thread

vars == <<g_currentDnsServer, g_dnsInitialized, g_channel, libRefs, pc, call, ret,
          g_dnsMutex, peer>>
config == <<g_currentDnsServer, g_dnsInitialized, g_channel, libRefs>>
threads == <<g_dnsMutex, peer>>

QueryKinds == <<"A", "AAAA", "CNAME", "MX", "TXT", "NS", "SRV", "PTR">>
KindSet == {QueryKinds[i] : i \in 1 .. Len(QueryKinds)}

\* (dataVect: the arguments as passed, until the lookup starts)
NoCall ==
    [op |-> "none", dataVect |-> <<>>, text |-> "", timeoutMs |-> 0, dnsServer |-> "",
     channel |-> NullChannel, issued |-> <<>>, done |-> {},
     value |-> "", records |-> <<>>, totalWaitMs |-> 0, waitMs |-> 0,
     cycles |-> 0, answered |-> {}, forced |-> {}, created |-> 0,
     destroyed |-> 0, exit |-> "none", entries |-> <<>>]

\* the observable outcome of a call (the errcode and fmx::Data result the host
\* receives, with what the call saw and did)
\*   arg          : the dataVect of the call (of a call past its gating: the text)
\*   status/value : the errcode and the text result handed to the host
\*   path         : "none" | "native" | "manual"  (which resolver did work)
\*   snap         : the server value the call saw (config calls: on entry)
\*   hadChannel   : g_channel was set when the call began
\*   afterUninit  : the call that returned just before this one was Uninitialize
\*   queries      : queries issued on the per-call session
\*   waited/budget: totalWaitMs at return and the effective timeoutMs
\*   records      : the (type, value) pairs collected by ResolveExtended
\*   lib          : "none" | "init" | "cleanup"   (one-time library work done)
\*   answered     : the queries the resolver answered with a usable entry
\*   entries      : those entries, as <<kind of the query, entry>>, in the
\*                  order the answers were delivered
\*   done/forced  : the queries whose callback ran / that were set to "?" by
\*                  the code after the wait loop
\*   os           : the answers the OS resolver gave to a call on the native path
\*   exit         : how the wait loop was left: "condition" (the loop condition
\*                  was false) | "nosockets" (nfds == 0) | "selecterror"
\*   created/destroyed : sessions of its own the call created (ares_init,
\*                  ares_init_options) and destroyed (ares_destroy)
StatusPending == -1

NoRet ==
    [op |-> "none", arg |-> <<>>, status |-> ErrNone, value |-> "", path |-> "none",
     snap |-> "", hadChannel |-> FALSE, afterUninit |-> FALSE, queries |-> 0,
     waited |-> 0, budget |-> 0, records |-> <<>>, lib |-> "none",
     answered |-> {}, done |-> {}, forced |-> {}, created |-> 0, destroyed |-> 0,
     exit |-> "none", entries |-> <<>>, os |-> <<>>]

\* the outcome of a call that is entered in the current state
MkRet(op, arg, status, value) ==
    [NoRet EXCEPT !.op = op, !.arg = arg, !.status = status, !.value = value,
                  !.snap = g_currentDnsServer,
                  !.hadChannel = (g_channel # NullChannel),
                  !.afterUninit = (ret.op = "Uninitialize")]

\* a multi-step call in progress has produced nothing yet
Pending(op) == [MkRet(op, <<>>, StatusPending, "") EXCEPT !.snap = "", !.hadChannel = FALSE]

\* the second thread between two calls; while it runs a call:
\*   at     : "lock" (about to take g_dnsMutex) | "locked" (inside the section)
\*   arg    : the server spec of a SetServer
\*   status : the errcode of its last call;  value : the text of its last call
NoPeer == [op |-> "none", at |-> "idle", arg |-> "", status |-> ErrNone, value |-> ""]

Init ==
    /\ g_dnsMutex = "none"
    /\ peer = NoPeer
    /\ g_currentDnsServer = ""
    /\ g_dnsInitialized = FALSE
    /\ g_channel = NullChannel
    /\ libRefs = 0
    /\ pc = "idle"
    /\ call = NoCall
    /\ ret = NoRet

\* ============================================================ ServerConfig

\* the channel (re)creation shared by Initialize and SetServer:
\* result is <<status, channel>>
RebuildChannel(server, initOk, csvOk) ==
    IF server = ""
    THEN IF initOk THEN <<0, ChannelOn("")>> ELSE <<1, NullChannel>>
    ELSE IF ~initOk THEN <<1, NullChannel>>
         ELSE IF csvOk /\ CsvWellFormed(server)
              THEN <<0, ChannelOn(server)>>
              ELSE <<1, NullChannel>>

\* an Initialize that resets the server on every call
fDNS_Initialize_Resets(libOk, initOk, csvOk) ==
    /\ pc = "idle"
    /\ IF ~g_dnsInitialized /\ ~libOk
       THEN /\ UNCHANGED config
            /\ ret' = MkRet("Initialize", <<>>, 1, "")
       ELSE LET rb == RebuildChannel("", initOk, csvOk)
            IN /\ g_currentDnsServer' = ""
               /\ g_dnsInitialized' = TRUE
               /\ libRefs' = IF g_dnsInitialized THEN libRefs ELSE libRefs + 1
               /\ g_channel' = rb[2]
               /\ ret' = [MkRet("Initialize", <<>>, rb[1], "") EXCEPT
                             !.lib = IF g_dnsInitialized THEN "none" ELSE "init"]
    /\ UNCHANGED <<pc, call, threads>>

\* an Initialize that runs the library setup on every call
fDNS_Initialize_RepeatsSetup(libOk, initOk, csvOk) ==
    /\ pc = "idle"
    /\ IF ~libOk
       THEN /\ UNCHANGED config
            /\ ret' = MkRet("Initialize", <<>>, 1, "")
       ELSE LET server == IF g_dnsInitialized THEN g_currentDnsServer ELSE ""
                rb == RebuildChannel(server, initOk, csvOk)
            IN /\ g_currentDnsServer' = server
               /\ g_dnsInitialized' = TRUE
               /\ libRefs' = libRefs + 1
               /\ g_channel' = rb[2]
               /\ ret' = [MkRet("Initialize", <<>>, rb[1], "") EXCEPT !.lib = "init"]
    /\ UNCHANGED <<pc, call, threads>>

fDNS_Initialize(libOk, initOk, csvOk) ==
    /\ pc = "idle"
    /\ IF ~g_dnsInitialized /\ ~libOk
       THEN /\ UNCHANGED config
            /\ ret' = MkRet("Initialize", <<>>, 1, "")
       ELSE LET server == IF g_dnsInitialized THEN g_currentDnsServer ELSE ""
                rb == RebuildChannel(server, initOk, csvOk)
            IN /\ g_currentDnsServer' = server
               /\ g_dnsInitialized' = TRUE
               /\ libRefs' = IF g_dnsInitialized THEN libRefs ELSE libRefs + 1
               /\ g_channel' = rb[2]
               /\ ret' = [MkRet("Initialize", <<>>, rb[1], "") EXCEPT
                             !.lib = IF g_dnsInitialized THEN "none" ELSE "init"]
    /\ UNCHANGED <<pc, call, threads>>

\* an Uninitialize that runs the library cleanup unconditionally
fDNS_Uninitialize_AlwaysCleans ==
    /\ pc = "idle"
    /\ g_channel' = NullChannel
    /\ libRefs' = libRefs - 1
    /\ g_dnsInitialized' = FALSE
    /\ g_currentDnsServer' = ""
    /\ ret' = [MkRet("Uninitialize", <<>>, 0, "") EXCEPT !.lib = "cleanup"]
    /\ UNCHANGED <<pc, call, threads>>

\* an Uninitialize that leaves the server as it is
fDNS_Uninitialize_KeepsServer ==
    /\ pc = "idle"
    /\ g_channel' = NullChannel
    /\ IF g_dnsInitialized
       THEN /\ libRefs' = libRefs - 1
            /\ g_dnsInitialized' = FALSE
            /\ UNCHANGED g_currentDnsServer
       ELSE UNCHANGED <<libRefs, g_dnsInitialized, g_currentDnsServer>>
    /\ ret' = [MkRet("Uninitialize", <<>>, 0, "") EXCEPT
                  !.lib = IF g_dnsInitialized THEN "cleanup" ELSE "none"]
    /\ UNCHANGED <<pc, call, threads>>

\* an Uninitialize that clears the flag without the library cleanup
fDNS_Uninitialize_SkipsCleanup ==
    /\ pc = "idle"
    /\ g_channel' = NullChannel
    /\ g_dnsInitialized' = FALSE
    /\ g_currentDnsServer' = IF g_dnsInitialized THEN "" ELSE g_currentDnsServer
    /\ UNCHANGED libRefs
    /\ ret' = MkRet("Uninitialize", <<>>, 0, "")
    /\ UNCHANGED <<pc, call, threads>>

fDNS_Uninitialize ==
    /\ pc = "idle"
    /\ g_channel' = NullChannel
    /\ IF g_dnsInitialized
       THEN /\ libRefs' = libRefs - 1
            /\ g_dnsInitialized' = FALSE
            /\ g_currentDnsServer' = ""
       ELSE UNCHANGED <<libRefs, g_dnsInitialized, g_currentDnsServer>>
    /\ ret' = [MkRet("Uninitialize", <<>>, 0, "") EXCEPT
                  !.lib = IF g_dnsInitialized THEN "cleanup" ELSE "none"]
    /\ UNCHANGED <<pc, call, threads>>

\* a SetServer that treats an empty spec as "keep the current server"
fDNS_Set_Server_IgnoresEmpty(dnsServer, initOk, csvOk) ==
    IF ~g_dnsInitialized
    THEN <<1, g_currentDnsServer, g_channel>>
    ELSE IF dnsServer = ""
    THEN <<0, g_currentDnsServer, g_channel>>
    ELSE LET rb == RebuildChannel(dnsServer, initOk, csvOk)
         IN <<rb[1], dnsServer, rb[2]>>

\* a SetServer that keeps the previous binding when the rebuild fails
fDNS_Set_Server_KeepsBinding(dnsServer, initOk, csvOk) ==
    IF ~g_dnsInitialized
    THEN <<1, g_currentDnsServer, g_channel>>
    ELSE LET rb == RebuildChannel(dnsServer, initOk, csvOk)
         IN <<rb[1], dnsServer, IF rb[1] = 0 THEN rb[2] ELSE g_channel>>

\* a SetServer that puts the previous server back when the rebuild fails
fDNS_Set_Server_RollsBack(dnsServer, initOk, csvOk) ==
    IF ~g_dnsInitialized
    THEN <<1, g_currentDnsServer, g_channel>>
    ELSE LET rb == RebuildChannel(dnsServer, initOk, csvOk)
         IN <<rb[1], IF rb[1] = 0 THEN dnsServer ELSE g_currentDnsServer, rb[2]>>

\* fDNS_Set_Server proper: <<status, server, channel>> after the call
fDNS_Set_Server(dnsServer, initOk, csvOk) ==
    IF ~g_dnsInitialized
    THEN <<1, g_currentDnsServer, g_channel>>
    ELSE LET rb == RebuildChannel(dnsServer, initOk, csvOk)
         IN <<rb[1], dnsServer, rb[2]>>

\* a wrapper that checks the argument count before the initialization flag
SetServerGate_ArgsFirst(initialized, dataVect) ==
    IF Len(dataVect) < 1 THEN ErrInvalidInput
    ELSE IF ~initialized THEN ErrNotInitialized
    ELSE ErrNone

\* the status fDNS_Plugin_Set_Server returns before it calls fDNS_Set_Server
\* (ErrNone: it goes on to call it)
SetServerGate(initialized, dataVect) ==
    IF ~initialized THEN ErrNotInitialized
    ELSE IF Len(dataVect) < 1 THEN ErrInvalidInput
    ELSE ErrNone

fDNS_Plugin_Set_Server(dataVect, initOk, csvOk) ==
    /\ pc = "idle"
    /\ LET gate == SetServerGate(g_dnsInitialized, dataVect)
       IN IF gate # ErrNone
          THEN /\ UNCHANGED config
               /\ ret' = MkRet("SetServer", dataVect, gate, "")
          ELSE LET r == fDNS_Set_Server(dataVect[1], initOk, csvOk)
               IN /\ g_currentDnsServer' = r[2]
                  /\ g_channel' = r[3]
                  /\ UNCHANGED <<g_dnsInitialized, libRefs>>
                  /\ ret' = MkRet("SetServer", dataVect, r[1], "")
    /\ UNCHANGED <<pc, call, threads>>

fDNS_Get_Current_Server == g_currentDnsServer

fDNS_Plugin_Get_Current_Server ==
    /\ pc = "idle"
    /\ ret' = MkRet("GetCurrentServer", <<>>, 0, fDNS_Get_Current_Server)
    /\ UNCHANGED <<config, pc, call, threads>>

\* the OS-reported resolvers as ares_get_servers lists them
SystemServerLists == {<<>>, <<"192.0.2.53">>, <<"192.0.2.53", "2001:db8::53">>}

RECURSIVE JoinServers(_)
JoinServers(list) ==
    IF list = <<>> THEN ""
    ELSE IF Len(list) = 1 THEN list[1]
    ELSE list[1] \o ", " \o JoinServers(Tail(list))

fDNS_Get_Systems_Server(initOk, getOk, servers) ==
    IF ~initOk THEN "?"
    ELSE IF getOk THEN JoinServers(servers) ELSE "?"

\* the sessions fDNS_Get_Systems_Server creates (ares_init on a local
\* channel) and destroys (ares_destroy before the return)
SystemsServerSessions(initOk) ==
    IF initOk THEN [created |-> 1, destroyed |-> 1] ELSE [created |-> 0, destroyed |-> 0]

\* a GetSystemServers that asks through the persistent binding, which it
\* creates when there is none
fDNS_Plugin_Get_Systems_Server_UsesBinding(initOk, getOk, servers) ==
    /\ pc = "idle"
    /\ ret' = MkRet("GetSystemServers", <<>>, 0,
                    fDNS_Get_Systems_Server(initOk, getOk, servers))
    /\ g_channel' = IF g_channel = NullChannel /\ initOk THEN ChannelOn("") ELSE g_channel
    /\ UNCHANGED <<g_currentDnsServer, g_dnsInitialized, libRefs, pc, call, threads>>

fDNS_Plugin_Get_Systems_Server(initOk, getOk, servers) ==
    /\ pc = "idle"
    /\ ret' = [MkRet("GetSystemServers", <<>>, 0,
                     fDNS_Get_Systems_Server(initOk, getOk, servers)) EXCEPT
                  !.created = SystemsServerSessions(initOk).created,
                  !.destroyed = SystemsServerSessions(initOk).destroyed]
    /\ UNCHANGED <<config, pc, call, threads>>

\* ========================================================= Resolution API

\* gating that forgets the initialization check
GateStatus_NoInitCheck(initialized, dataVect) ==
    IF Len(dataVect) < 1 THEN ErrInvalidInput
    ELSE IF dataVect[1] = "" THEN ErrInvalidInput
    ELSE ErrNone

\* gating that forgets the empty-argument check
GateStatus_NoEmptyCheck(initialized, dataVect) ==
    IF ~initialized THEN ErrNotInitialized
    ELSE IF Len(dataVect) < 1 THEN ErrInvalidInput
    ELSE ErrNone

\* the gating at the top of fDNS_Resolve / fDNS_Reverse / fDNS_Resolve_Extended
GateStatus(initialized, dataVect) ==
    IF ~initialized THEN ErrNotInitialized
    ELSE IF Len(dataVect) < 1 THEN ErrInvalidInput
    ELSE IF dataVect[1] = "" THEN ErrInvalidInput
    ELSE ErrNone

\* a timeout argument that is used as it is passed
EffectiveTimeout_KeepsNegative(dataVect) ==
    IF Len(dataVect) > 1 THEN dataVect[2] ELSE DEFAULT_TIMEOUT

\* timeoutMs as the three functions compute it from the optional argument
EffectiveTimeout(dataVect) ==
    IF Len(dataVect) > 1
    THEN IF dataVect[2] < 0 THEN DEFAULT_TIMEOUT ELSE dataVect[2]
    ELSE DEFAULT_TIMEOUT

\* the result of a call that did its work, built from the call's locals
RetOf(c, status, value, path) ==
    [ret EXCEPT !.arg = <<c.text>>, !.status = status, !.value = value,
                !.path = path, !.snap = c.dnsServer, !.queries = Len(c.issued),
                !.waited = c.totalWaitMs, !.budget = c.timeoutMs,
                !.records = c.records, !.answered = c.answered,
                !.done = c.done, !.forced = c.forced,
                !.created = c.created, !.destroyed = c.destroyed, !.exit = c.exit,
                !.entries = c.entries]

\* entry of a resolving call: gating and argument decoding
Enter(op, dataVect) ==
    /\ pc = "idle"
    /\ LET status == GateStatus(g_dnsInitialized, dataVect)
       IN IF status # ErrNone
          THEN /\ ret' = MkRet(op, dataVect, status, "")
               /\ UNCHANGED <<pc, call>>
          ELSE /\ call' = [NoCall EXCEPT !.op = op, !.dataVect = dataVect,
                                         !.text = dataVect[1],
                                         !.timeoutMs = EffectiveTimeout(dataVect)]
               /\ pc' = "snapshot"
               /\ ret' = Pending(op)
    /\ UNCHANGED <<config, threads>>

fDNS_Resolve(dataVect) == Enter("Resolve", dataVect)
fDNS_Reverse(dataVect) == Enter("Reverse", dataVect)
fDNS_Resolve_Extended(dataVect) == Enter("ResolveExtended", dataVect)

\* { std::lock_guard<std::mutex> lock(g_dnsMutex);
SnapshotLock ==
    /\ pc = "snapshot"
    /\ g_dnsMutex = "none"
    /\ g_dnsMutex' = "call"
    /\ pc' = "copy"
    /\ UNCHANGED <<config, call, ret, peer>>

\* a snapshot whose guard outlives the block it was declared in
Snapshot_KeepsLock ==
    /\ pc = "copy"
    /\ call' = [call EXCEPT !.dnsServer = g_currentDnsServer]
    /\ pc' = "dispatch"
    /\ UNCHANGED <<config, ret, threads>>

\*   dnsServer = g_currentDnsServer; }   (the guard releases at the brace)
Snapshot ==
    /\ pc = "copy"
    /\ call' = [call EXCEPT !.dnsServer = g_currentDnsServer]
    /\ g_dnsMutex' = "none"
    /\ pc' = "dispatch"
    /\ UNCHANGED <<config, ret, peer>>

\* a call returns: its result is published and its locals disappear
Return(r) ==
    /\ ret' = r
    /\ call' = NoCall
    /\ pc' = "idle"
    /\ UNCHANGED <<config, threads>>

\* a branch taken on the shared server as it is now, not on the copy
UsesSystemResolver_ReadsGlobal(c) == g_currentDnsServer = ""

\* if (dnsServer.empty()): the branch between the two resolvers
UsesSystemResolver(c) == c.dnsServer = ""

\* ---------------------------------------------------- NativeResolverAdapter

\* what getaddrinfo(AF_INET) can produce
GaiResults == {[err |-> 1, addr |-> ""], [err |-> 0, addr |-> ""],
               [err |-> 0, addr |-> "93.184.216.34"]}

resolve_with_system(hostname, gai) ==
    IF gai.err # 0 \/ gai.addr = "" THEN "?" ELSE gai.addr

\* what getnameinfo(NI_NAMEREQD) can produce
GniResults == {[err |-> 1, host |-> ""], [err |-> 0, host |-> "host.example"]}

reverse_with_system(ipAddress, gni) ==
    IF ~IsIPv4(ipAddress) THEN "?"
    ELSE IF gni.err # 0 THEN "?"
    ELSE gni.host

\* what gethostbyname and getaddrinfo(AF_INET6) can produce
HostentResults(hostname) ==
    {[found |-> FALSE, inet |-> FALSE, name |-> "", addrs |-> <<>>],
     [found |-> TRUE, inet |-> TRUE, name |-> hostname, addrs |-> <<"93.184.216.34">>],
     [found |-> TRUE, inet |-> TRUE, name |-> "canonical.example",
      addrs |-> <<"93.184.216.34">>],
     [found |-> TRUE, inet |-> FALSE, name |-> hostname, addrs |-> <<"2001:db8::1">>]}
Gai6Results == {[err |-> 1, addrs |-> <<>>], [err |-> 0, addrs |-> <<"2001:db8::1">>]}

Tag(type, values) == [i \in 1 .. Len(values) |-> <<type, values[i]>>]

\* the system-resolver branch of fDNS_Resolve_Extended
NativeRecords(hostname, he, gai6) ==
    (IF he.found /\ he.inet THEN Tag("A", he.addrs) ELSE <<>>)
    \o (IF gai6.err = 0 THEN Tag("AAAA", gai6.addrs) ELSE <<>>)
    \o (IF he.found /\ he.name # "" /\ he.name # hostname
        THEN <<<<"CNAME", he.name>>>> ELSE <<>>)

RECURSIVE JsonItems(_)
JsonItems(records) ==
    IF records = <<>> THEN ""
    ELSE "{\"type\":\"" \o records[1][1] \o "\",\"value\":\"" \o records[1][2] \o "\"}"
         \o (IF Len(records) > 1 THEN "," ELSE "")
         \o JsonItems(Tail(records))

DNSRecordsToJson(hostname, records) ==
    "{\"hostname\":\"" \o hostname \o "\",\"records\":[" \o JsonItems(records) \o "]}"

\* the answers the OS resolver can give to the blocking calls of a call on
\* the system-resolver branch: getaddrinfo | getnameinfo (not called when
\* inet_pton rejects the address) | gethostbyname and getaddrinfo(AF_INET6)
OsAnswers(c) ==
    IF c.op = "Resolve" THEN {<<gai>> : gai \in GaiResults}
    ELSE IF c.op = "Reverse"
         THEN IF IsIPv4(c.text) THEN {<<gni>> : gni \in GniResults} ELSE {<<>>}
    ELSE {<<he, gai6>> : he \in HostentResults(c.text), gai6 \in Gai6Results}

\* a native branch that gives up at once when the budget is 0
NativeResult_HonoursBudget(c, os) ==
    IF c.op = "Resolve"
    THEN [RetOf(c, 0, IF c.timeoutMs = 0 THEN "?" ELSE resolve_with_system(c.text, os[1]),
                "native") EXCEPT !.os = os]
    ELSE IF c.op = "Reverse"
    THEN [RetOf(c, 0, IF c.timeoutMs = 0 THEN "?"
                      ELSE reverse_with_system(c.text, IF os = <<>> THEN [err |-> 1, host |-> ""]
                                                       ELSE os[1]),
                "native") EXCEPT !.os = os]
    ELSE LET r == [c EXCEPT !.records = IF c.timeoutMs = 0 THEN <<>>
                                        ELSE NativeRecords(c.text, os[1], os[2])]
         IN [RetOf(r, 0, DNSRecordsToJson(r.text, r.records), "native") EXCEPT !.os = os]

\* what a call on the system-resolver branch returns when the OS resolver
\* answers os
NativeResult(c, os) ==
    IF c.op = "Resolve"
    THEN LET r == [c EXCEPT !.answered =
                      IF os[1].err = 0 /\ os[1].addr # "" THEN {"getaddrinfo"} ELSE {}]
         IN [RetOf(r, 0, resolve_with_system(r.text, os[1]), "native") EXCEPT !.os = os]
    ELSE IF c.op = "Reverse"
    THEN LET gni == IF os = <<>> THEN [err |-> 1, host |-> ""] ELSE os[1]
             r == [c EXCEPT !.answered =
                      IF IsIPv4(c.text) /\ gni.err = 0 THEN {"getnameinfo"} ELSE {}]
         IN [RetOf(r, 0, reverse_with_system(r.text, gni), "native") EXCEPT !.os = os]
    ELSE LET r == [c EXCEPT !.records = NativeRecords(c.text, os[1], os[2])]
         IN [RetOf(r, 0, DNSRecordsToJson(r.text, r.records), "native") EXCEPT !.os = os]

\* the system-resolver branches: the blocking calls into the OS resolver
DispatchNative ==
    /\ pc = "dispatch"
    /\ UsesSystemResolver(call)
    /\ \E os \in OsAnswers(call) : Return(NativeResult(call, os))

\* ----------------------------------------------------- ManualResolverEngine

\* the queries a call issues on its session, in issuance order
QueriesOf(op) ==
    IF op = "Resolve" THEN <<"gethostbyname">>
    ELSE IF op = "Reverse" THEN <<"gethostbyaddr">>
    ELSE QueryKinds

IssuedSet(c) == {c.issued[i] : i \in 1 .. Len(c.issued)}
PendingQueries(c) == IssuedSet(c) \ c.done
AllDone(c) == PendingQueries(c) = {}

\* a session that is bound to the shared server as it is now, not to the copy
DispatchManual_BindsCurrent(optionsOk, csvOk) ==
    /\ pc = "dispatch"
    /\ ~UsesSystemResolver(call)
    /\ IF ~optionsOk
       THEN Return(RetOf(call, 1, "", "none"))
       ELSE IF ~(csvOk /\ CsvWellFormed(g_currentDnsServer))
       THEN Return(RetOf([call EXCEPT !.created = 1, !.destroyed = 1], 1, "", "none"))
       ELSE IF call.op = "Reverse" /\ ~IsIPv4(call.text)
       THEN Return(RetOf([call EXCEPT !.created = 1, !.destroyed = 1],
                         ErrInvalidInput, "", "none"))
       ELSE /\ call' = [call EXCEPT !.channel = ChannelOn(g_currentDnsServer),
                                    !.dataVect = <<>>, !.created = 1]
            /\ pc' = "issue"
            /\ UNCHANGED <<config, ret, threads>>

\* creation of the per-call session and, for Reverse, the address check
\* a session setup that returns for an invalid reverse address without
\* destroying the session it created
DispatchManual_LeaksOnBadAddress(optionsOk, csvOk) ==
    /\ pc = "dispatch"
    /\ ~UsesSystemResolver(call)
    /\ IF ~optionsOk
       THEN Return(RetOf(call, 1, "", "none"))
       ELSE IF ~(csvOk /\ CsvWellFormed(call.dnsServer))
       THEN Return(RetOf([call EXCEPT !.created = 1, !.destroyed = 1], 1, "", "none"))
       ELSE IF call.op = "Reverse" /\ ~IsIPv4(call.text)
       THEN Return(RetOf([call EXCEPT !.created = 1], ErrInvalidInput, "", "none"))
       ELSE /\ call' = [call EXCEPT !.channel = ChannelOn(call.dnsServer),
                                    !.dataVect = <<>>, !.created = 1]
            /\ pc' = "issue"
            /\ UNCHANGED <<config, ret, threads>>

\* ares_init_options, ares_set_servers_ports_csv and (Reverse) inet_pton
DispatchManual(optionsOk, csvOk) ==
    /\ pc = "dispatch"
    /\ ~UsesSystemResolver(call)
    /\ IF ~optionsOk
       THEN Return(RetOf(call, 1, "", "none"))
       ELSE IF ~(csvOk /\ CsvWellFormed(call.dnsServer))
       THEN Return(RetOf([call EXCEPT !.created = 1, !.destroyed = 1], 1, "", "none"))
       ELSE IF call.op = "Reverse" /\ ~IsIPv4(call.text)
       THEN Return(RetOf([call EXCEPT !.created = 1, !.destroyed = 1],
                         ErrInvalidInput, "", "none"))
       ELSE /\ call' = [call EXCEPT !.channel = ChannelOn(call.dnsServer),
                                    !.dataVect = <<>>, !.created = 1]
            /\ pc' = "issue"
            /\ UNCHANGED <<config, ret, threads>>

\* ---- what the session hands to a callback
\* single-answer lookups: an ares status and a hostent
\* (null: the hostent, its first address or its name is a null pointer;
\*  host: the dotted quad inet_ntop renders, or the text h_name points to,
\*  which is empty when the PTR target is the root name)
HostOutcomes ==
    {[status |-> "ARES_SUCCESS", null |-> FALSE, host |-> "93.184.216.34"],
     [status |-> "ARES_SUCCESS", null |-> TRUE, host |-> ""],
     [status |-> "ARES_ENOTFOUND", null |-> TRUE, host |-> ""],
     [status |-> "ARES_ETIMEOUT", null |-> TRUE, host |-> ""]}
AddrOutcomes ==
    {[status |-> "ARES_SUCCESS", null |-> FALSE, host |-> "host.example"],
     [status |-> "ARES_SUCCESS", null |-> FALSE, host |-> ""],
     [status |-> "ARES_SUCCESS", null |-> TRUE, host |-> ""],
     [status |-> "ARES_ENOTFOUND", null |-> TRUE, host |-> ""],
     [status |-> "ARES_ETIMEOUT", null |-> TRUE, host |-> ""]}
Destruction ==
    [status |-> "ARES_EDESTRUCTION", null |-> TRUE, host |-> "", msg |-> <<>>,
     parses |-> FALSE]

\* an answer-section entry: its wire type and its rdata fields
\* (parsed = FALSE: ns_parserr fails on it)
RR(type, parsed, n1, n2, n3, name) ==
    [type |-> type, parsed |-> parsed, n1 |-> n1, n2 |-> n2, n3 |-> n3, name |-> name]

SampleRR(type) ==
    IF type = "A" THEN RR("A", TRUE, 0, 0, 0, "93.184.216.34")
    ELSE IF type = "AAAA" THEN RR("AAAA", TRUE, 0, 0, 0, "2001:db8::1")
    ELSE IF type = "MX" THEN RR("MX", TRUE, 10, 0, 0, "mail.example")
    ELSE IF type = "SRV" THEN RR("SRV", TRUE, 1, 2, 443, "srv.example")
    ELSE IF type = "TXT" THEN RR("TXT", TRUE, 0, 0, 0, "v=spf1")
    ELSE RR(type, TRUE, 0, 0, 0, "target.example")

OtherKind(kind) == IF kind = "CNAME" THEN "A" ELSE "CNAME"

\* raw answers to a query of one kind: unparseable, empty, one matching entry,
\* a foreign entry before the matching one, an entry with empty rendering,
\* an entry ns_parserr rejects, and (for MX) two matching entries
QueryOutcomes(kind) ==
    {[status |-> "ARES_ENOTFOUND", parses |-> FALSE, msg |-> <<>>],
     [status |-> "ARES_ETIMEOUT", parses |-> FALSE, msg |-> <<>>],
     [status |-> "ARES_SUCCESS", parses |-> FALSE, msg |-> <<SampleRR(kind)>>],
     [status |-> "ARES_SUCCESS", parses |-> TRUE, msg |-> <<>>],
     [status |-> "ARES_SUCCESS", parses |-> TRUE, msg |-> <<SampleRR(kind)>>],
     [status |-> "ARES_SUCCESS", parses |-> TRUE,
      msg |-> <<SampleRR(OtherKind(kind)), SampleRR(kind)>>],
     [status |-> "ARES_SUCCESS", parses |-> TRUE,
      msg |-> <<[SampleRR(kind) EXCEPT !.name = ""]>>],
     [status |-> "ARES_SUCCESS", parses |-> TRUE,
      msg |-> <<[SampleRR(kind) EXCEPT !.parsed = FALSE]>>]}
    \cup (IF kind = "MX"
          THEN {[status |-> "ARES_SUCCESS", parses |-> TRUE,
                 msg |-> <<[SampleRR(kind) EXCEPT !.n1 = 20, !.name = "alt.example"],
                           SampleRR(kind)>>]}
          ELSE {})

\* a rendering that does not compare the entry's wire type with the kind
RenderRR_AnyType(type, rr) ==
    IF type = "MX" THEN ToString(rr.n1) \o " " \o rr.name
    ELSE IF type = "SRV"
         THEN ToString(rr.n1) \o " " \o ToString(rr.n2) \o " " \o ToString(rr.n3)
              \o " " \o rr.name
    ELSE rr.name

\* the value the ResolveExtended callback renders for one entry ("" = none)
RenderRR(type, rr) ==
    IF rr.type # type THEN ""
    ELSE IF type = "MX" THEN ToString(rr.n1) \o " " \o rr.name
    ELSE IF type = "SRV"
         THEN ToString(rr.n1) \o " " \o ToString(rr.n2) \o " " \o ToString(rr.n3)
              \o " " \o rr.name
    ELSE rr.name

RECURSIVE ParseAnswer(_, _)
ParseAnswer(type, msg) ==
    IF msg = <<>> THEN <<>>
    ELSE LET rr == msg[1]
             value == IF rr.parsed THEN RenderRR(type, rr) ELSE ""
         IN (IF value # "" THEN <<<<type, value>>>> ELSE <<>>)
            \o ParseAnswer(type, Tail(msg))

\* the callbacks of the three functions, as a change of the call's locals
ResolveCallback(c, out) ==
    [c EXCEPT !.value = IF out.status = "ARES_SUCCESS" /\ ~out.null
                        THEN out.host ELSE "?",
              !.done = c.done \cup {"gethostbyname"}]

ReverseCallback(c, out) ==
    [c EXCEPT !.value = IF out.status = "ARES_SUCCESS" /\ ~out.null
                        THEN out.host ELSE "?",
              !.done = c.done \cup {"gethostbyaddr"}]

\* a callback that records a "?" entry for a query that failed
ExtendedCallback_Sentinel(c, kind, out) ==
    [c EXCEPT !.records = IF out.status = "ARES_SUCCESS" /\ out.parses
                          THEN c.records \o ParseAnswer(kind, out.msg)
                          ELSE Append(c.records, <<kind, "?">>),
              !.done = c.done \cup {kind}]

\* a callback that puts its records in front of the ones collected so far
ExtendedCallback_Prepends(c, kind, out) ==
    [c EXCEPT !.records = IF out.status = "ARES_SUCCESS" /\ out.parses
                          THEN ParseAnswer(kind, out.msg) \o c.records
                          ELSE c.records,
              !.done = c.done \cup {kind}]

\* cb->records->emplace_back(cb->type, value) per usable entry; cb->done = true
ExtendedCallback(c, kind, out) ==
    [c EXCEPT !.records = IF out.status = "ARES_SUCCESS" /\ out.parses
                          THEN c.records \o ParseAnswer(kind, out.msg)
                          ELSE c.records,
              !.done = c.done \cup {kind}]

Callback(c, kind, out) ==
    IF c.op = "Resolve" THEN ResolveCallback(c, out)
    ELSE IF c.op = "Reverse" THEN ReverseCallback(c, out)
    ELSE ExtendedCallback(c, kind, out)

\* the server's answer to a ResolveExtended query of this kind carries an
\* entry of the kind asked for that decodes to a value
Answered(kind, out) ==
    /\ out.status = "ARES_SUCCESS"
    /\ out.parses
    /\ \E i \in 1 .. Len(out.msg) :
          /\ out.msg[i].type = kind
          /\ out.msg[i].parsed
          /\ RenderRR(kind, out.msg[i]) # ""

\* the entries of an answer to a ResolveExtended query that are of the kind
\* asked for and decode to a value, in answer-section order
UsableEntries(kind, out) ==
    IF out.status = "ARES_SUCCESS" /\ out.parses
    THEN LET Usable(rr) == rr.type = kind /\ rr.parsed /\ RenderRR(kind, rr) # ""
             sel == SelectSeq(out.msg, Usable)
         IN [i \in 1 .. Len(sel) |-> <<kind, sel[i]>>]
    ELSE <<>>

\* the session completes a query: its callback runs (and what the server had
\* answered is noted)
Deliver(c, kind, out) ==
    [Callback(c, kind, out) EXCEPT
        !.answered = IF (IF c.op = "ResolveExtended" THEN Answered(kind, out)
                         ELSE out.status = "ARES_SUCCESS" /\ ~out.null)
                     THEN c.answered \cup {kind} ELSE c.answered,
        !.entries = IF c.op = "ResolveExtended"
                    THEN c.entries \o UsableEntries(kind, out) ELSE c.entries]

OutcomesFor(c, kind) ==
    IF c.op = "Resolve" THEN HostOutcomes
    ELSE IF c.op = "Reverse" THEN AddrOutcomes
    ELSE {o \in QueryOutcomes(kind) :
            ExtendedCallback(c, kind, o).records # c.records => kind \in AnsweredKinds}

\* ares_gethostbyname / ares_gethostbyaddr / ares_query: the next query is
\* handed to the session, which may complete it before returning
Issue ==
    /\ pc = "issue"
    /\ LET kind == QueriesOf(call.op)[Len(call.issued) + 1]
           c == [call EXCEPT !.issued = Append(call.issued, kind)]
       IN /\ \/ call' = c
             \/ \E out \in OutcomesFor(c, kind) : call' = Deliver(c, kind, out)
          /\ pc' = IF Len(c.issued) = Len(QueriesOf(call.op)) THEN "loop" ELSE "issue"
    /\ UNCHANGED <<config, ret, threads>>

\* ------------------------------------------------------------ DeadlineDriver

\* the struct timeval values ares_timeout reports
TvChoices ==
    {[tv_sec |-> 0, tv_usec |-> 0], [tv_sec |-> 0, tv_usec |-> 999]}
    \cup {[tv_sec |-> 0, tv_usec |-> 1000 * k] : k \in 1 .. MaxTvMs}
    \cup {[tv_sec |-> s, tv_usec |-> 0] : s \in 1 .. MaxTvSec}

\* int waitMs = (tvp->tv_sec * 1000) + (tvp->tv_usec / 1000);
WaitOf(tv) == tv.tv_sec * 1000 + (tv.tv_usec \div 1000)

\* an interval that is not clipped to the remaining budget
ClipWait_NoClip(waitMs, timeoutMs, totalWaitMs) == waitMs

\* if (waitMs > (timeoutMs - totalWaitMs)) waitMs = timeoutMs - totalWaitMs;
ClipWait(waitMs, timeoutMs, totalWaitMs) ==
    IF waitMs > timeoutMs - totalWaitMs THEN timeoutMs - totalWaitMs ELSE waitMs

\* a loop that stops as soon as one of the queries is done
LoopContinues_AnyDone(c) == c.done = {} /\ c.totalWaitMs < c.timeoutMs

\* a loop condition that does not look at the budget
LoopContinues_IgnoresBudget(c) == ~AllDone(c)

\* while (!done && totalWaitMs < timeoutMs)
LoopContinues(c) == ~AllDone(c) /\ c.totalWaitMs < c.timeoutMs

\* a loop that charges the whole budget when the session has no sockets
LoopHead_WaitsWithoutSockets ==
    /\ pc = "loop"
    /\ IF ~LoopContinues(call)
       THEN /\ pc' = "after"
            /\ call' = [call EXCEPT !.exit = "condition"]
       ELSE \/ /\ pc' = "after"
               /\ call' = [call EXCEPT !.exit = "nosockets",
                                       !.totalWaitMs = call.timeoutMs]
            \/ \E tv \in TvChoices :
                 LET waitMs == ClipWait(WaitOf(tv), call.timeoutMs, call.totalWaitMs)
                 IN /\ waitMs > 0 => call.cycles < MaxCycles
                    /\ call' = [call EXCEPT !.waitMs = waitMs]
                    /\ pc' = "select"
    /\ UNCHANGED <<config, ret, threads>>

\* loop condition, ares_fds, ares_timeout and the clipping of the interval
LoopHead ==
    /\ pc = "loop"
    /\ IF ~LoopContinues(call)
       THEN /\ pc' = "after"
            /\ call' = [call EXCEPT !.exit = "condition"]
       ELSE \/ /\ pc' = "after"                 \* nfds == 0
               /\ call' = [call EXCEPT !.exit = "nosockets"]
            \/ \E tv \in TvChoices :
                 LET waitMs == ClipWait(WaitOf(tv), call.timeoutMs, call.totalWaitMs)
                 IN /\ waitMs > 0 => call.cycles < MaxCycles
                    /\ call' = [call EXCEPT !.waitMs = waitMs]
                    /\ pc' = "select"
    /\ UNCHANGED <<config, ret, threads>>

\* a select whose failure makes the call send a pending query once more
Select_Retries ==
    /\ pc = "select"
    /\ \/ /\ pc' = "process"
          /\ UNCHANGED call
       \/ /\ pc' = "loop"
          /\ \E kind \in PendingQueries(call) :
                call' = [call EXCEPT !.issued = Append(call.issued, kind)]
    /\ UNCHANGED <<config, ret, threads>>

\* a select whose failed wait is still added to the elapsed time
Select_CountsFailedWait ==
    /\ pc = "select"
    /\ \/ /\ pc' = "process"
          /\ UNCHANGED call
       \/ /\ pc' = "after"
          /\ call' = [call EXCEPT !.exit = "selecterror",
                                  !.totalWaitMs = call.totalWaitMs + call.waitMs]
    /\ UNCHANGED <<config, ret, threads>>

\* int waited = select(nfds, &read_fds, &write_fds, nullptr, &tv_limit);
Select ==
    /\ pc = "select"
    /\ \/ /\ pc' = "process"                    \* waited >= 0
          /\ UNCHANGED call
       \/ /\ pc' = "after"                      \* select error
          /\ call' = [call EXCEPT !.exit = "selecterror"]
    /\ UNCHANGED <<config, ret, threads>>

\* ares_process completes a pending query through its callback
ProcessCallback ==
    /\ pc = "process"
    /\ \E kind \in PendingQueries(call) :
         \E out \in OutcomesFor(call, kind) : call' = Deliver(call, kind, out)
    /\ UNCHANGED <<config, pc, ret, threads>>

\* ares_process returns; totalWaitMs += waitMs;
ProcessEnd ==
    /\ pc = "process"
    /\ call' = [call EXCEPT !.totalWaitMs = call.totalWaitMs + call.waitMs,
                            !.cycles = IF call.waitMs > 0 THEN call.cycles + 1
                                       ELSE call.cycles,
                            !.waitMs = 0]
    /\ pc' = "loop"
    /\ UNCHANGED <<config, ret, threads>>

\* after the loop: a pending single-answer lookup is forced to "?"
Forced(c) ==
    IF c.op # "ResolveExtended" /\ ~AllDone(c)
    THEN [c EXCEPT !.value = "?", !.forced = PendingQueries(c)]
    ELSE c

\* ares_destroy(channel) ends every pending query through its callback
RECURSIVE DestroyChannel(_)
DestroyChannel(c) ==
    IF AllDone(c) THEN [c EXCEPT !.channel = NullChannel, !.destroyed = c.destroyed + 1]
    ELSE LET kind == CHOOSE k \in PendingQueries(c) : TRUE
         IN DestroyChannel(Callback(c, kind, Destruction))

\* the text a call on the custom path hands back
ManualValue(c) ==
    IF c.op = "ResolveExtended" THEN DNSRecordsToJson(c.text, c.records) ELSE c.value

\* a teardown that still takes in an answer for a query that was pending
AfterLoop_TakesLateAnswer ==
    /\ pc = "after"
    /\ LET forced == Forced(call)
       IN IF PendingQueries(call) = {}
          THEN LET c == [DestroyChannel(forced) EXCEPT !.waitMs = 0]
               IN Return(RetOf(c, 0, ManualValue(c), "manual"))
          ELSE \E kind \in PendingQueries(call) :
                 \E out \in OutcomesFor(call, kind) :
                    LET c == [DestroyChannel(Deliver(forced, kind, out))
                                EXCEPT !.waitMs = 0]
                    IN Return(RetOf(c, 0, ManualValue(c), "manual"))

\* if (!done) value = "?"; ares_destroy(channel); return the value
AfterLoop ==
    /\ pc = "after"
    /\ LET forced == Forced(call)
           c == [DestroyChannel(forced) EXCEPT !.waitMs = 0]
       IN Return(RetOf(c, 0, ManualValue(c), "manual"))

\* ------------------------------------------------- a second host thread

\* the configuration functions another thread of the host may be running
\* while a resolving call is in progress
PeerOps == {"Initialize", "Uninitialize", "SetServer", "GetCurrentServer"}

\* entry of a configuration call on the second thread: fDNS_Plugin_Set_Server
\* tests g_dnsInitialized and its argument before it calls fDNS_Set_Server;
\* the other three go straight to the lock_guard
PeerEnter(op, dataVect) ==
    /\ peer.at = "idle"
    /\ LET gate == IF op = "SetServer"
                   THEN SetServerGate(g_dnsInitialized, dataVect) ELSE ErrNone
       IN peer' = IF gate # ErrNone
                  THEN [NoPeer EXCEPT !.op = op, !.status = gate]
                  ELSE [NoPeer EXCEPT !.op = op, !.at = "lock",
                                      !.arg = IF op = "SetServer" THEN dataVect[1] ELSE ""]
    /\ UNCHANGED <<config, pc, call, ret, g_dnsMutex>>

\* std::lock_guard<std::mutex> lock(g_dnsMutex);
PeerLock ==
    /\ peer.at = "lock"
    /\ g_dnsMutex = "none"
    /\ g_dnsMutex' = "peer"
    /\ peer' = [peer EXCEPT !.at = "locked"]
    /\ UNCHANGED <<config, pc, call, ret>>

\* the body of the function under the lock, as
\* <<status, value, server, initialized, channel, libRefs>> after it
PeerBody(op, arg, libOk, initOk, csvOk) ==
    IF op = "Initialize"
    THEN IF ~g_dnsInitialized /\ ~libOk
         THEN <<1, "", g_currentDnsServer, g_dnsInitialized, g_channel, libRefs>>
         ELSE LET server == IF g_dnsInitialized THEN g_currentDnsServer ELSE ""
                  rb == RebuildChannel(server, initOk, csvOk)
              IN <<rb[1], "", server, TRUE, rb[2],
                   IF g_dnsInitialized THEN libRefs ELSE libRefs + 1>>
    ELSE IF op = "Uninitialize"
    THEN IF g_dnsInitialized
         THEN <<0, "", "", FALSE, NullChannel, libRefs - 1>>
         ELSE <<0, "", g_currentDnsServer, g_dnsInitialized, NullChannel, libRefs>>
    ELSE IF op = "SetServer"
    THEN LET r == fDNS_Set_Server(arg, initOk, csvOk)
         IN <<r[1], "", r[2], g_dnsInitialized, r[3], libRefs>>
    ELSE <<0, fDNS_Get_Current_Server, g_currentDnsServer, g_dnsInitialized,
           g_channel, libRefs>>

\* the locked section runs to its return, where the guard releases the lock
PeerSection(libOk, initOk, csvOk) ==
    /\ peer.at = "locked"
    /\ LET b == PeerBody(peer.op, peer.arg, libOk, initOk, csvOk)
       IN /\ g_currentDnsServer' = b[3]
          /\ g_dnsInitialized' = b[4]
          /\ g_channel' = b[5]
          /\ libRefs' = b[6]
          /\ peer' = [peer EXCEPT !.at = "idle", !.status = b[1], !.value = b[2]]
    /\ g_dnsMutex' = "none"
    /\ UNCHANGED <<pc, call, ret>>

\* ======================================================== the specification

ConfigStep ==
    \/ \E libOk, initOk, csvOk \in BOOLEAN : fDNS_Initialize(libOk, initOk, csvOk)
    \/ fDNS_Uninitialize
    \/ \E dataVect \in {<<>>} \cup {<<s>> : s \in ServerSpecs}, initOk, csvOk \in BOOLEAN :
          fDNS_Plugin_Set_Server(dataVect, initOk, csvOk)
    \/ fDNS_Plugin_Get_Current_Server
    \/ \E initOk, getOk \in BOOLEAN, servers \in SystemServerLists :
          fDNS_Plugin_Get_Systems_Server(initOk, getOk, servers)

CallStep ==
    \/ SnapshotLock
    \/ Snapshot
    \/ DispatchNative
    \/ \E optionsOk, csvOk \in BOOLEAN : DispatchManual(optionsOk, csvOk)
    \/ Issue
    \/ LoopHead
    \/ Select
    \/ ProcessCallback
    \/ ProcessEnd
    \/ AfterLoop

Next ==
    \/ ConfigStep
    \/ \E dataVect \in DataVects(Hostnames) : fDNS_Resolve(dataVect)
    \/ \E dataVect \in DataVects(Addresses) : fDNS_Reverse(dataVect)
    \/ \E dataVect \in DataVects(Hostnames) : fDNS_Resolve_Extended(dataVect)
    \/ CallStep

Spec == Init /\ [][Next]_vars

\* the forward lookup alone, on an engine that is initialized and configured
ResolveNext ==
    \/ \E libOk, initOk, csvOk \in BOOLEAN : fDNS_Initialize(libOk, initOk, csvOk)
    \/ \E server \in ServerSpecs, initOk, csvOk \in BOOLEAN :
          fDNS_Plugin_Set_Server(<<server>>, initOk, csvOk)
    \/ \E dataVect \in DataVects(Hostnames) : fDNS_Resolve(dataVect)
    \/ CallStep

\* a call that has been entered keeps running: nothing in the host suspends a
\* call between two of its steps
LiveSpec == Init /\ [][ResolveNext]_vars /\ WF_vars(CallStep)

\* the arguments of the calls made while a second thread changes the
\* configuration: single-answer lookups with a budget of 1 ms, eight-query
\* lookups with a budget of 0 ms
ThreadDataVects(texts, ms) == {<<t, ms>> : t \in texts}

PeerStep ==
    \/ \E op \in PeerOps, dataVect \in {<<>>} \cup {<<s>> : s \in ServerSpecs} :
          PeerEnter(op, dataVect)
    \/ PeerLock
    \/ \E libOk, initOk, csvOk \in BOOLEAN : PeerSection(libOk, initOk, csvOk)

\* two host threads: one makes resolving calls, the other configuration calls
ThreadNext ==
    \/ PeerStep
    \/ \E dataVect \in ThreadDataVects(Hostnames, 1) : fDNS_Resolve(dataVect)
    \/ \E dataVect \in ThreadDataVects(Addresses, 1) : fDNS_Reverse(dataVect)
    \/ \E dataVect \in ThreadDataVects(Hostnames, 0) : fDNS_Resolve_Extended(dataVect)
    \/ CallStep

ThreadSpec == Init /\ [][ThreadNext]_vars

\* ================================================== src/dns_v04.cpp (v0.4)
\* The v0.4 plug-in has no configuration state: each call sets the resolver
\* library up, creates its session, waits, and tears both down again.

\* const int maxWaitMs = 3000;  // max 3 seconds
maxWaitMs == 3000

V04Ops == {"Do_DNS_Resolve", "Do_DNS_Reverse"}
V04Positions == {"v04loop", "v04select", "v04process", "v04after"}

\* dataVect of a v0.4 call: the text argument, optionally a server spec
V04DataVects(texts) ==
    {<<>>} \cup {<<t>> : t \in texts}
    \cup {<<t, s>> : t \in texts, s \in ServerSpecs}

\* what a v0.4 call hands back
V04Ret(c, status, value) ==
    [MkRet(c.op, <<c.text>>, status, value) EXCEPT
        !.path = "manual", !.snap = c.dnsServer, !.queries = Len(c.issued),
        !.waited = c.totalWaitMs, !.budget = c.timeoutMs, !.answered = c.answered,
        !.done = c.done, !.forced = c.forced, !.created = c.created,
        !.destroyed = c.destroyed, !.exit = c.exit]

\* the callbacks of Do_DNS_Resolve and Do_DNS_Reverse
V04Callback(c, kind, out) ==
    [c EXCEPT !.value = IF out.status = "ARES_SUCCESS" /\ ~out.null
                        THEN out.host ELSE "?",
              !.done = c.done \cup {kind},
              !.answered = IF out.status = "ARES_SUCCESS" /\ ~out.null
                           THEN c.answered \cup {kind} ELSE c.answered]

V04Outcomes(c) == IF c.op = "Do_DNS_Resolve" THEN HostOutcomes ELSE AddrOutcomes

\* a v0.4 call from its entry to the issuance of its query: argument checks,
\* ares_library_init, session setup, (Reverse) inet_pton, ares_gethostby*
V04Enter(op, dataVect, libOk, initOk, csvOk) ==
    /\ pc = "idle"
    /\ libRefs <= MaxLeaks
    /\ UNCHANGED <<g_currentDnsServer, g_dnsInitialized, g_channel, threads>>
    /\ IF Len(dataVect) < 1 \/ dataVect[1] = ""
       THEN /\ ret' = MkRet(op, dataVect, ErrInvalidInput, "")
            /\ UNCHANGED <<libRefs, pc, call>>
       ELSE LET dnsServer == IF Len(dataVect) > 1 THEN dataVect[2] ELSE ""
                kind == IF op = "Do_DNS_Resolve" THEN "gethostbyname" ELSE "gethostbyaddr"
                c == [NoCall EXCEPT !.op = op, !.text = dataVect[1],
                                    !.dnsServer = dnsServer, !.timeoutMs = maxWaitMs]
                made == [c EXCEPT !.created = 1]
            IN IF ~libOk \/ ~initOk
               THEN /\ ret' = V04Ret(c, 1, "")
                    /\ UNCHANGED <<libRefs, pc, call>>
               ELSE IF dnsServer # "" /\ ~(csvOk /\ CsvWellFormed(dnsServer))
               THEN /\ ret' = V04Ret([made EXCEPT !.destroyed = 1], 1, "")
                    /\ UNCHANGED <<libRefs, pc, call>>
               ELSE IF op = "Do_DNS_Reverse" /\ ~IsIPv4(dataVect[1])
               THEN /\ ret' = V04Ret(made, ErrInvalidInput, "")
                    /\ libRefs' = libRefs + 1
                    /\ UNCHANGED <<pc, call>>
               ELSE LET q == [made EXCEPT !.channel = ChannelOn(dnsServer),
                                          !.issued = <<kind>>]
                    IN /\ \/ call' = q
                          \/ \E out \in V04Outcomes(q) : call' = V04Callback(q, kind, out)
                       /\ libRefs' = libRefs + 1
                       /\ pc' = "v04loop"
                       /\ ret' = Pending(op)

Do_DNS_Resolve(dataVect, libOk, initOk, csvOk) ==
    V04Enter("Do_DNS_Resolve", dataVect, libOk, initOk, csvOk)
Do_DNS_Reverse(dataVect, libOk, initOk, csvOk) ==
    V04Enter("Do_DNS_Reverse", dataVect, libOk, initOk, csvOk)

\* while (!callbackData.done && totalWaitMs < maxWaitMs), ares_fds,
\* ares_timeout; int waitMs = tv_sec * 1000 + tv_usec / 1000;
V04LoopHead ==
    /\ pc = "v04loop"
    /\ IF ~(~AllDone(call) /\ call.totalWaitMs < maxWaitMs)
       THEN /\ pc' = "v04after"
            /\ call' = [call EXCEPT !.exit = "condition"]
       ELSE \/ /\ pc' = "v04after"               \* nfds == 0
               /\ call' = [call EXCEPT !.exit = "nosockets"]
            \/ \E tv \in TvChoices :
                 /\ WaitOf(tv) > 0 => call.cycles < MaxCycles
                 /\ call' = [call EXCEPT !.waitMs = WaitOf(tv)]
                 /\ pc' = "v04select"
    /\ UNCHANGED <<config, ret, threads>>

\* int waited = select(nfds, &read_fds, &write_fds, nullptr, tvp);
V04Select ==
    /\ pc = "v04select"
    /\ \/ /\ pc' = "v04process"
          /\ UNCHANGED call
       \/ /\ pc' = "v04after"                    \* select error
          /\ call' = [call EXCEPT !.exit = "selecterror"]
    /\ UNCHANGED <<config, ret, threads>>

\* ares_process completes the pending query through its callback
V04ProcessCallback ==
    /\ pc = "v04process"
    /\ \E kind \in PendingQueries(call) :
         \E out \in V04Outcomes(call) : call' = V04Callback(call, kind, out)
    /\ UNCHANGED <<config, pc, ret, threads>>

\* ares_process returns; totalWaitMs += waitMs;
V04ProcessEnd ==
    /\ pc = "v04process"
    /\ call' = [call EXCEPT !.totalWaitMs = call.totalWaitMs + call.waitMs,
                            !.cycles = IF call.waitMs > 0 THEN call.cycles + 1
                                       ELSE call.cycles,
                            !.waitMs = 0]
    /\ pc' = "v04loop"
    /\ UNCHANGED <<config, ret, threads>>

\* if (!done) value = "?"; ares_destroy(channel); ares_library_cleanup();
V04AfterLoop ==
    /\ pc = "v04after"
    /\ LET forced == IF ~AllDone(call)
                     THEN [call EXCEPT !.value = "?", !.forced = PendingQueries(call)]
                     ELSE call
           ended == IF AllDone(forced) THEN forced
                    ELSE V04Callback(forced, CHOOSE k \in PendingQueries(forced) : TRUE,
                                     Destruction)
           c == [ended EXCEPT !.channel = NullChannel, !.destroyed = 1, !.waitMs = 0]
       IN /\ ret' = V04Ret(c, 0, c.value)
          /\ libRefs' = libRefs - 1
          /\ call' = NoCall
          /\ pc' = "idle"
    /\ UNCHANGED <<g_currentDnsServer, g_dnsInitialized, g_channel, threads>>

V04Next ==
    \/ \E dataVect \in V04DataVects(Hostnames), libOk, initOk, csvOk \in BOOLEAN :
          Do_DNS_Resolve(dataVect, libOk, initOk, csvOk)
    \/ \E dataVect \in V04DataVects(Addresses), libOk, initOk, csvOk \in BOOLEAN :
          Do_DNS_Reverse(dataVect, libOk, initOk, csvOk)
    \/ V04LoopHead
    \/ V04Select
    \/ V04ProcessCallback
    \/ V04ProcessEnd
    \/ V04AfterLoop

V04Spec == Init /\ [][V04Next]_vars

\* ============================================================= properties

ResolvingOps == {"Resolve", "Reverse", "ResolveExtended"}
Returned == pc = "idle" /\ ret.status # StatusPending

\* C1: a resolving call made while the engine is not initialized fails with
\* status 1 and does no lookup: while the engine is uninitialized no resolving
\* call is in progress, and the resolving call that returned last has status 1,
\* took no resolver path and issued no query.
C1_NotInitializedFails ==
    ~g_dnsInitialized /\ ret.op \in ResolvingOps =>
        /\ pc = "idle"
        /\ call = NoCall
        /\ ret.status = ErrNotInitialized
        /\ ret.path = "none"
        /\ ret.queries = 0
        /\ ret.value = ""

\* a resolving call with a usable argument was refused on an engine that is
\* not initialized
C1_Witness ==
    /\ ~g_dnsInitialized
    /\ ret.op \in ResolvingOps
    /\ ret.arg # <<>> /\ ret.arg[1] # ""
    /\ ret.status = ErrNotInitialized

\* C2: on the custom-server path the accumulated wait stays within the budget
\* of the whole call at every point of the wait loop, and the interval about
\* to be waited never takes it past the budget.
C2_WaitWithinBudget ==
    /\ pc \in {"issue", "loop", "select", "process", "after"} =>
          /\ 0 <= call.totalWaitMs
          /\ call.totalWaitMs <= call.timeoutMs
          /\ 0 <= call.waitMs
          /\ call.totalWaitMs + call.waitMs <= call.timeoutMs
    /\ Returned /\ ret.path = "manual" => 0 <= ret.waited /\ ret.waited <= ret.budget

\* an eight-query call is about to wait for an interval that was cut down to
\* what is left of a budget it has already partly used
C2_Witness ==
    /\ pc = "select"
    /\ call.op = "ResolveExtended"
    /\ call.totalWaitMs > 0
    /\ call.waitMs > 0
    /\ call.waitMs = call.timeoutMs - call.totalWaitMs
    /\ Cardinality(PendingQueries(call)) > 1

\* C3: a Resolve call on the custom-server path with timeoutMs > 0 eventually
\* returns, whatever the session does while the query is pending (also when
\* it keeps reporting a preferred wait interval of 0 ms).
C3_ResolveReturns ==
    (pc = "loop" /\ call.op = "Resolve" /\ call.timeoutMs > 0) ~> (pc = "idle")

\* a Resolve or Reverse call with an empty first argument has returned
EmptyArgReturned ==
    /\ Returned
    /\ ret.op \in {"Resolve", "Reverse"}
    /\ ret.arg # <<>>
    /\ ret.arg[1] = ""

\* C4 (as stated): Resolve("", _) and Reverse("", _) fail with InvalidInput
\* (956) whether or not the engine is initialized.
C4_EmptyAlwaysInvalidInput == EmptyArgReturned => ret.status = ErrInvalidInput

\* C4 (amended): Resolve("", _) and Reverse("", _) always fail and do no
\* lookup; the status is InvalidInput (956) when the engine is initialized
\* and NotInitialized (1) when it is not.
C4_EmptyFails ==
    EmptyArgReturned =>
        /\ ret.status = IF g_dnsInitialized THEN ErrInvalidInput ELSE ErrNotInitialized
        /\ ret.path = "none"
        /\ ret.queries = 0

\* an empty hostname or address was refused with 956 on an initialized engine
C4_Witness == EmptyArgReturned /\ g_dnsInitialized /\ ret.status = ErrInvalidInput

\* C5: on an initialized engine, Reverse with an address that is not an IPv4
\* literal fails with InvalidInput, never returns "?" and issues no query,
\* whatever the server configuration.
C5_ReverseNonIPv4Invalid ==
    (/\ Returned
     /\ ret.op = "Reverse"
     /\ g_dnsInitialized
     /\ ret.arg # <<>>
     /\ ~IsIPv4(ret.arg[1])) =>
        /\ ret.status = ErrInvalidInput
        /\ ret.value # "?"
        /\ ret.queries = 0

SetServerStep ==
    \E dataVect \in {<<>>} \cup {<<s>> : s \in ServerSpecs}, initOk, csvOk \in BOOLEAN :
        fDNS_Plugin_Set_Server(dataVect, initOk, csvOk)
InitializeStep ==
    \E libOk, initOk, csvOk \in BOOLEAN : fDNS_Initialize(libOk, initOk, csvOk)

\* C6: a successful SetServer(X) with non-empty X makes X the current server,
\* every step other than a SetServer or an Uninitialize keeps a non-empty
\* current server as it is, and GetCurrentServer returns the current server.
C6_SetGetRoundTrip ==
    [][/\ \A X \in ServerSpecs \ {""} :
             (/\ \E initOk, csvOk \in BOOLEAN :
                    fDNS_Plugin_Set_Server(<<X>>, initOk, csvOk)
              /\ ret'.status = ErrNone) => g_currentDnsServer' = X
       /\ (g_currentDnsServer # "" /\ ~SetServerStep /\ ~fDNS_Uninitialize) =>
             g_currentDnsServer' = g_currentDnsServer
       /\ fDNS_Plugin_Get_Current_Server => ret'.value = g_currentDnsServer
      ]_vars

\* a second Initialize returned on an engine whose server had been set, and
\* the server is still the one that was set and bound
C6_Witness ==
    /\ Returned
    /\ ret.op = "Initialize"
    /\ ret.lib = "none"
    /\ ret.snap \in GoodServers
    /\ g_currentDnsServer = ret.snap
    /\ g_channel = ChannelOn(g_currentDnsServer)

\* C7: SetServer("") on an initialized engine makes the current server empty
\* whatever it was; an empty server stays empty until the next SetServer;
\* GetCurrentServer then returns ""; and while the server is empty no call has
\* a session of its own and a resolving call that did a lookup took the
\* native path and issued no query.
C7_EmptyRestoresDefault ==
    /\ [][/\ (/\ g_dnsInitialized
              /\ \E initOk, csvOk \in BOOLEAN :
                    fDNS_Plugin_Set_Server(<<"">>, initOk, csvOk))
             => g_currentDnsServer' = ""
          /\ (g_currentDnsServer = "" /\ ~SetServerStep) => g_currentDnsServer' = ""
          /\ (g_currentDnsServer = "" /\ fDNS_Plugin_Get_Current_Server)
             => ret'.value = ""
         ]_vars
    /\ [](g_currentDnsServer = "" =>
            /\ call.channel = NullChannel
            /\ pc \in {"idle", "snapshot", "copy", "dispatch"}
            /\ (Returned /\ ret.op \in ResolvingOps /\ ret.status = ErrNone) =>
                  (ret.path = "native" /\ ret.queries = 0 /\ ret.snap = ""))

\* SetServer("") has just replaced a custom server
C7_Witness ==
    /\ Returned
    /\ ret.op = "SetServer"
    /\ ret.arg = <<"">>
    /\ ret.snap \in GoodServers
    /\ g_currentDnsServer = ""

\* C8: Uninitialize always returns ok and leaves the engine uninitialized with
\* an empty server and no persistent binding; on an engine that is already
\* uninitialized (as after a first Uninitialize) it changes nothing and runs
\* no library cleanup.
C8_UninitializeIdempotent ==
    [][fDNS_Uninitialize =>
          /\ ret'.status = ErrNone
          /\ ~g_dnsInitialized'
          /\ g_currentDnsServer' = ""
          /\ g_channel' = NullChannel
          /\ (ret.op = "Uninitialize" \/ ~g_dnsInitialized) =>
                (UNCHANGED config /\ ret'.lib = "none")
      ]_vars

\* an Uninitialize returned right after another Uninitialize
C8_Witness ==
    /\ Returned
    /\ ret.op = "Uninitialize"
    /\ ret.afterUninit
    /\ ret.status = ErrNone
    /\ ret.lib = "none"

\* C9: SetServer on an engine that is not initialized fails with
\* NotInitialized and changes nothing: the server stays "", the engine stays
\* uninitialized and there is no persistent binding.
C9_SetServerNeedsInit ==
    [][(SetServerStep /\ ~g_dnsInitialized) =>
          /\ ret'.status = ErrNotInitialized
          /\ UNCHANGED config
          /\ g_currentDnsServer' = ""
          /\ ~g_dnsInitialized'
          /\ g_channel' = NullChannel
      ]_vars

\* SetServer with a well-formed server was refused on an uninitialized engine
C9_Witness ==
    /\ Returned
    /\ ret.op = "SetServer"
    /\ ret.arg # <<>> /\ ret.arg[1] \in GoodServers
    /\ ret.status = ErrNotInitialized
    /\ ~g_dnsInitialized

\* the rebuild of the binding for this spec fails
BindFails(spec, initOk, csvOk) ==
    ~initOk \/ (spec # "" /\ ~(csvOk /\ CsvWellFormed(spec)))

\* C10: a SetServer on an initialized engine that fails to bind reports a
\* failure status, leaves the engine initialized and leaves no persistent
\* binding; a missing binding comes back only through a SetServer or an
\* Initialize that returns ok.
C10_FailedBindDropsBinding ==
    [][/\ \A X \in ServerSpecs, initOk, csvOk \in BOOLEAN :
             (/\ g_dnsInitialized
              /\ BindFails(X, initOk, csvOk)
              /\ fDNS_Plugin_Set_Server(<<X>>, initOk, csvOk)) =>
                 /\ ret'.status # ErrNone
                 /\ g_dnsInitialized'
                 /\ g_channel' = NullChannel
       /\ (g_channel = NullChannel /\ g_channel' # NullChannel) =>
             /\ SetServerStep \/ InitializeStep
             /\ ret'.status = ErrNone
      ]_vars

\* a SetServer failed on an engine that had a binding, and the binding is gone
C10_Witness ==
    /\ Returned
    /\ ret.op = "SetServer"
    /\ ret.status = 1
    /\ ret.hadChannel
    /\ g_dnsInitialized
    /\ g_channel = NullChannel

\* the positions at which a call owns a session of its own
SessionPositions == {"issue", "loop", "select", "process", "after"}

\* C11: which resolver a call uses depends only on the server value it copied
\* under the lock, also when another thread changes the server afterwards: a
\* call owns a session exactly while it is on the manual path, that session
\* is bound to the copied value, which is not empty; a call that returned
\* after a native lookup had copied "" and issued no query; a call that
\* returned from the manual path had copied a non-empty value; and a call
\* that returned ok did exactly one of the two.
C11_DispatchBySnapshot ==
    /\ pc \in SessionPositions =>
          /\ call.dnsServer # ""
          /\ call.channel = ChannelOn(call.dnsServer)
    /\ pc \notin SessionPositions => call.channel = NullChannel
    /\ (Returned /\ ret.op \in ResolvingOps) =>
          /\ ret.path = "native" => (ret.snap = "" /\ ret.queries = 0)
          /\ ret.path = "manual" => (ret.snap # "" /\ ret.queries > 0)
          /\ ret.status = ErrNone => ret.path \in {"native", "manual"}

\* a call waits on a session bound to the server it copied, while the shared
\* server has been emptied by the other thread in the meantime
C11_Witness ==
    /\ pc = "select"
    /\ call.dnsServer \in GoodServers
    /\ call.channel = ChannelOn(call.dnsServer)
    /\ g_currentDnsServer = ""

\* a ResolveExtended call has returned from the custom-server path
ExtendedReturned == Returned /\ ret.op = "ResolveExtended" /\ ret.path = "manual"

\* the records of one type in a list of (type, value) pairs
OfType(records, kind) == {i \in 1 .. Len(records) : records[i][1] = kind}

\* C12: a ResolveExtended call that ran on the custom-server path returns ok
\* and its records are exactly one per usable entry the server answered
\* with: a query that failed, timed out, got an unparseable or an
\* empty message, or was ended with the session, adds no record and no "?"
\* record; when the server answered A and MX only there are exactly two
\* records, one A and one MX, and when it answered nothing the list is empty.
C12_ExtendedRecords ==
    ExtendedReturned =>
        /\ ret.status = ErrNone
        /\ ret.value = DNSRecordsToJson(ret.arg[1], ret.records)
        /\ \A i \in 1 .. Len(ret.records) : ret.records[i][2] \notin {"?", ""}
        /\ \A kind \in KindSet :
              Cardinality(OfType(ret.records, kind)) =
                 Cardinality({i \in 1 .. Len(ret.entries) : ret.entries[i][1] = kind})
        /\ \A kind \in KindSet : (OfType(ret.records, kind) # {}) = (kind \in ret.answered)
        /\ Len(ret.records) = Len(ret.entries)
        /\ (ret.answered = {"A", "MX"} /\ Len(ret.entries) = 2) =>
              /\ Len(ret.records) = 2
              /\ {ret.records[1][1], ret.records[2][1]} = {"A", "MX"}
        /\ ret.answered = {} => ret.records = <<>>

\* all eight queries were issued, the server answered the A and the MX query,
\* and the call returned two records
C12_Witness ==
    /\ ExtendedReturned
    /\ ret.queries = 8
    /\ ret.answered = {"A", "MX"}
    /\ Len(ret.records) = 2

\* a Resolve or Reverse call has returned
SingleReturned == Returned /\ ret.op \in {"Resolve", "Reverse"}

\* C13: a Resolve or Reverse call returns a failure status only when it made
\* no lookup at all (it was refused at the gating or could not set up its
\* session); a call that made a lookup returns ok whatever the lookup did;
\* when the resolver gave no usable answer (error status, nothing in the
\* hostent, timeout, no sockets, select error) the value is "?"; and the value
\* of a call that returned ok is never the empty string.
C13_SentinelOnFailure ==
    SingleReturned =>
        /\ ret.status # ErrNone =>
              /\ ret.status \in {ErrNotInitialized, ErrInvalidInput}
              /\ ret.path = "none"
              /\ ret.queries = 0
        /\ ret.path # "none" => ret.status = ErrNone
        /\ (ret.path # "none" /\ ret.answered = {}) => ret.value = "?"
        /\ ret.status = ErrNone => ret.value # ""

\* C14: the budget of a call that passed its gating is DEFAULT_TIMEOUT (3000)
\* when the timeout argument is absent or negative and is the argument itself
\* when that is >= 0; the budget is never negative, neither in a call in
\* progress nor in one that returned, and the wait loop does not change it.
C14_EffectiveBudget ==
    /\ [](pc \in {"snapshot", "copy", "dispatch"} =>
            call.timeoutMs = IF Len(call.dataVect) > 1 /\ call.dataVect[2] >= 0
                             THEN call.dataVect[2] ELSE 3000)
    /\ [](call.timeoutMs >= 0 /\ ret.budget >= 0)
    /\ [][(pc \in SessionPositions) =>
             (call'.timeoutMs = call.timeoutMs
              \/ (pc' = "idle" /\ ret'.budget = call.timeoutMs))]_vars

\* a call that was passed a negative timeout is about to start its lookup
\* with the default budget
C14_Witness ==
    /\ pc = "dispatch"
    /\ Len(call.dataVect) > 1
    /\ call.dataVect[2] < 0
    /\ call.timeoutMs = DEFAULT_TIMEOUT

\* a resolving call has returned from the custom-server path
ManualReturned == Returned /\ ret.op \in ResolvingOps /\ ret.path = "manual"

\* C15: every query a call issued is completed exactly once, either by its
\* callback or by being forced to "?" after the wait loop, never both: when
\* the call returns, each issued query has been forced or has had its
\* callback run, and no query that was forced has also had its callback run
\* (not even by the session while it was destroyed).
C15_CompletedOnce ==
    ManualReturned =>
        /\ ret.forced \cup ret.done = {QueriesOf(ret.op)[i] : i \in 1 .. ret.queries}
        /\ ret.forced \cap ret.done = {}

\* the configuration functions that write server or initialized under the lock
LockedWriters == {"Initialize", "Uninitialize", "SetServer"}

\* a resolving call is entered: its first statement reads g_dnsInitialized
EnterStep ==
    \E op \in ResolvingOps, dataVect \in DataVects(Hostnames \cup Addresses) :
        Enter(op, dataVect)

\* C16: server and initialized are only read and written under g_dnsMutex: a
\* thread inside a locked section owns the lock, the copy of the server is
\* taken by the owner of the lock, and no resolving call reads initialized
\* while another thread is inside a locked section that writes it.
C16_AccessesUnderLock ==
    /\ [](pc = "copy" => g_dnsMutex = "call")
    /\ [](peer.at = "locked" => g_dnsMutex = "peer")
    /\ [][EnterStep => ~(g_dnsMutex = "peer" /\ peer.op \in LockedWriters)]_vars

\* the positions of a resolving call after the copy of the server: the native
\* lookup, the session setup, query issuance, the wait loop, the teardown
LookupPositions == {"dispatch"} \cup SessionPositions

\* C17: a resolving call owns g_dnsMutex only between taking it and copying
\* the server; it does not own it during the native lookup, the issuance of
\* its queries or the readiness wait, so a configuration call that wants the
\* lock while a lookup is in progress can take it at once.
C17_LockNotHeldAcrossWait ==
    /\ g_dnsMutex = "call" => pc = "copy"
    /\ pc \in LookupPositions => g_dnsMutex # "call"
    /\ (pc \in LookupPositions /\ peer.at = "lock") => ENABLED PeerLock

\* a configuration call is inside its locked section while a resolving call
\* waits in select
C17_Witness ==
    /\ pc = "select"
    /\ call.waitMs > 0
    /\ peer.at = "locked"
    /\ g_dnsMutex = "peer"

\* C18: Initialize on an initialized engine leaves server and initialized as
\* they are, runs no library setup and only rebuilds the persistent binding
\* for the current server; Initialize on an uninitialized engine runs the
\* library setup and, when that succeeds, makes the server empty and the
\* engine initialized (when it fails the call returns 1 and changes nothing).
C18_InitializeFrame ==
    [][\A libOk, initOk, csvOk \in BOOLEAN :
          fDNS_Initialize(libOk, initOk, csvOk) =>
             IF g_dnsInitialized
             THEN /\ g_currentDnsServer' = g_currentDnsServer
                  /\ g_dnsInitialized'
                  /\ libRefs' = libRefs
                  /\ ret'.lib = "none"
                  /\ g_channel' \in {NullChannel, ChannelOn(g_currentDnsServer)}
                  /\ ret'.status = ErrNone <=> g_channel' # NullChannel
             ELSE IF libOk
             THEN /\ g_currentDnsServer' = ""
                  /\ g_dnsInitialized'
                  /\ libRefs' = libRefs + 1
                  /\ ret'.lib = "init"
             ELSE UNCHANGED config /\ ret'.status = 1
      ]_vars

\* an Initialize on an initialized engine that had lost its binding returned:
\* the server is still the one set before, no library setup was run, and the
\* binding is back
C18_Witness ==
    /\ Returned
    /\ ret.op = "Initialize"
    /\ ret.lib = "none"
    /\ ~ret.hadChannel
    /\ ret.snap \in GoodServers
    /\ g_currentDnsServer = ret.snap
    /\ g_dnsInitialized
    /\ g_channel = ChannelOn(g_currentDnsServer)

\* the positions of a call after its queries have been handed to the session
WaitPositions == {"loop", "select", "process", "after"}

\* C19: a call on the custom path hands each of its queries to the session
\* once: while it issues, the queries issued so far are the first ones of its
\* list (one for Resolve and Reverse, the eight kinds for ResolveExtended);
\* from the wait loop on the whole list has been issued and nothing is issued
\* again, whatever the callbacks, the waits and select report; and a call
\* that returned from the custom path issued exactly 1 or exactly 8 queries.
C19_NoRetry ==
    /\ [](pc \in SessionPositions =>
            /\ Len(call.issued) <= Len(QueriesOf(call.op))
            /\ call.issued = SubSeq(QueriesOf(call.op), 1, Len(call.issued)))
    /\ [](pc \in WaitPositions => call.issued = QueriesOf(call.op))
    /\ [](ManualReturned => ret.queries = IF ret.op = "ResolveExtended" THEN 8 ELSE 1)
    /\ [][(pc \in WaitPositions) =>
             (call'.issued = call.issued
              \/ (pc' = "idle" /\ ret'.queries = Len(call.issued)))]_vars

\* a single-answer call whose wait ended before its budget was used up (no
\* sockets, or a select error) with its query still pending returned "?"
\* after one query
C19_Witness ==
    /\ ManualReturned
    /\ ret.op \in {"Resolve", "Reverse"}
    /\ ret.queries = 1
    /\ ret.forced # {}
    /\ ret.waited < ret.budget
    /\ ret.value = "?"

\* an eight-query call is at the head of its wait loop
ExtendedAtLoop == pc = "loop" /\ call.op = "ResolveExtended"

\* C20: a ResolveExtended call on the custom path has handed all eight
\* queries to its one session before it waits for the first time, and the
\* session stays the same until the call returns; at the head of the loop the
\* call can go on waiting exactly when one of the eight is still pending and
\* budget remains (it may then still leave because the session has no
\* sockets), and it leaves the wait only to tear the session down.
C20_AllIssuedBeforeWait ==
    /\ []((call.op = "ResolveExtended" /\ pc \in WaitPositions) =>
             /\ Len(call.issued) = 8
             /\ IssuedSet(call) = KindSet
             /\ call.channel = ChannelOn(call.dnsServer))
    /\ []((call.op = "ResolveExtended" /\ pc = "issue") =>
             (call.totalWaitMs = 0 /\ call.cycles = 0))
    /\ [](ExtendedAtLoop =>
             ((PendingQueries(call) # {} /\ call.totalWaitMs < call.timeoutMs)
                <=> ENABLED (LoopHead /\ pc' = "select")))
    /\ [][(call.op = "ResolveExtended" /\ pc \in WaitPositions) =>
             (call'.channel = call.channel \/ pc' = "idle")]_vars

\* the first wait of an eight-query call begins: all eight have been issued,
\* some were completed while they were issued, the others are pending
C20_Witness ==
    /\ pc = "select"
    /\ call.op = "ResolveExtended"
    /\ call.totalWaitMs = 0
    /\ call.cycles = 0
    /\ Len(call.issued) = 8
    /\ call.done # {}
    /\ PendingQueries(call) # {}

\* the two reading calls
GetCurrentServerStep == fDNS_Plugin_Get_Current_Server
GetSystemServersStep ==
    \E initOk, getOk \in BOOLEAN, servers \in SystemServerLists :
        fDNS_Plugin_Get_Systems_Server(initOk, getOk, servers)

\* C21: GetCurrentServer and GetSystemServers change neither the server, nor
\* initialized, nor the persistent binding, nor the library reference,
\* whether the engine is initialized or not, and both return ok;
\* GetCurrentServer returns the current server; GetSystemServers has
\* destroyed every session it created when it returns.
C21_PureReads ==
    /\ [][(GetCurrentServerStep \/ GetSystemServersStep) =>
             (UNCHANGED config /\ ret'.status = ErrNone)]_vars
    /\ [][GetCurrentServerStep => ret'.value = g_currentDnsServer]_vars
    /\ []((Returned /\ ret.op = "GetSystemServers") =>
             (ret.created = ret.destroyed /\ ret.created <= 1))

\* GetSystemServers listed the system's servers on a session of its own, on
\* an engine that is not initialized and has no persistent binding
C21_Witness ==
    /\ Returned
    /\ ret.op = "GetSystemServers"
    /\ ret.created = 1
    /\ ret.destroyed = 1
    /\ ret.value \notin {"", "?"}
    /\ ~g_dnsInitialized
    /\ g_channel = NullChannel

\* C22: from its copy of the server to its return a resolving call works on
\* that copy: no step changes the copy, the session of the call is bound to
\* it from its creation to its destruction, the call returns on the path the
\* copy selects, a call of the other thread (a SetServer among them) changes
\* nothing of the call in progress, and no step of the call touches the
\* persistent binding or the shared server.
C22_SnapshotIsolation ==
    /\ [](pc \in SessionPositions => call.channel = ChannelOn(call.dnsServer))
    /\ [][(pc \in LookupPositions) =>
             (IF pc' = "idle"
              THEN /\ ret'.snap = call.dnsServer
                   /\ ret'.path = "native" => call.dnsServer = ""
                   /\ ret'.path = "manual" => call.dnsServer # ""
              ELSE /\ call'.dnsServer = call.dnsServer
                   /\ pc \in SessionPositions => call'.channel = call.channel)]_vars
    /\ [][PeerStep => UNCHANGED <<pc, call, ret>>]_vars
    /\ [][(pc # pc' \/ call # call') => UNCHANGED config]_vars

\* a SetServer("") of the other thread has completed while the call was
\* waiting on a session bound to the server it had copied
C22_Witness ==
    /\ pc = "process"
    /\ call.dnsServer \in GoodServers
    /\ call.channel = ChannelOn(call.dnsServer)
    /\ peer.op = "SetServer"
    /\ peer.at = "idle"
    /\ peer.status = ErrNone
    /\ g_currentDnsServer = ""

\* C23: a resolving call starts its lookup (the native resolver call, the
\* creation of its session, the issuance of a query) only on an engine that
\* is initialized at that moment, also when an Uninitialize of another thread
\* completes after the call has tested g_dnsInitialized.
C23_NoLookupAfterUninitialize ==
    [][((pc = "dispatch" \/ pc = "issue") /\ call' # call) => g_dnsInitialized]_vars

\* C24: while the engine is not initialized the server is "" and there is no
\* persistent binding; the server changes only in a step that starts or ends
\* with the engine initialized; an Initialize that makes the engine
\* initialized leaves the server empty; and an Uninitialize leaves the server
\* empty and no binding.
C24_UninitializedIsEmpty ==
    /\ [](~g_dnsInitialized => (g_currentDnsServer = "" /\ g_channel = NullChannel))
    /\ [][g_currentDnsServer' # g_currentDnsServer =>
             /\ g_dnsInitialized
             /\ SetServerStep \/ fDNS_Uninitialize]_vars
    /\ [][(~g_dnsInitialized /\ g_dnsInitialized') =>
             (InitializeStep /\ g_currentDnsServer' = "")]_vars
    /\ [][fDNS_Uninitialize =>
             (g_currentDnsServer' = "" /\ g_channel' = NullChannel
              /\ ~g_dnsInitialized')]_vars

\* an Uninitialize has cleared a custom server and destroyed its binding
C24_Witness ==
    /\ Returned
    /\ ret.op = "Uninitialize"
    /\ ret.snap \in GoodServers
    /\ ret.hadChannel
    /\ ret.lib = "cleanup"
    /\ ~g_dnsInitialized
    /\ g_currentDnsServer = ""
    /\ g_channel = NullChannel

\* C25: an Initialize that is called on an uninitialized engine and reports a
\* failure leaves the engine uninitialized, whether the library setup or the
\* creation of the persistent binding failed.
C25_FailedInitializeStaysUninitialized ==
    [][(InitializeStep /\ ~g_dnsInitialized /\ ret'.status # ErrNone) =>
          ~g_dnsInitialized']_vars

\* C26: a SetServer(X), X not empty, on an initialized engine that reports a
\* failure has made X the current server all the same; GetCurrentServer then
\* returns X; and as long as the current server is not empty a resolving
\* call that passed its gating copies it, cannot take the native path and
\* returns either from the custom path or with the failure of its own
\* session setup.
C26_FailedSetServerStores ==
    /\ [][\A X \in ServerSpecs \ {""} :
             (/\ g_dnsInitialized
              /\ \E initOk, csvOk \in BOOLEAN :
                    fDNS_Plugin_Set_Server(<<X>>, initOk, csvOk)
              /\ ret'.status # ErrNone) => g_currentDnsServer' = X]_vars
    /\ [][(g_currentDnsServer # "" /\ GetCurrentServerStep) =>
             ret'.value = g_currentDnsServer]_vars
    /\ []((g_currentDnsServer # "" /\ pc \in LookupPositions) =>
             /\ call.dnsServer = g_currentDnsServer
             /\ ~ENABLED DispatchNative)
    /\ []((g_currentDnsServer # "" /\ Returned /\ ret.op \in ResolvingOps
           /\ ret.snap = g_currentDnsServer /\ ret.path # "manual") =>
             (ret.path = "none" /\ ret.status # ErrNone))

\* a resolving call took the custom path with the server of a SetServer
\* that had failed to build the persistent binding
C26_Witness ==
    /\ Returned
    /\ ret.op \in ResolvingOps
    /\ ret.path = "manual"
    /\ ret.snap \in GoodServers
    /\ g_currentDnsServer = ret.snap
    /\ g_dnsInitialized
    /\ g_channel = NullChannel

\* the step on which the wait loop of the current call is left for reason r
LoopExit(r) == call.exit = "none" /\ call'.exit = r

\* C27: when the session has no sockets to wait on, the loop is left at
\* once from its head: no wait interval is chosen, nothing is added to the
\* elapsed time and no query is completed by that step; a single-answer
\* lookup that is still pending then returns "?".
C27_NoSocketsExit ==
    /\ [][LoopExit("nosockets") =>
             /\ pc = "loop" /\ pc' = "after"
             /\ call' = [call EXCEPT !.exit = "nosockets"]
             /\ call.waitMs = 0]_vars
    /\ [][(pc = "after" /\ call.exit = "nosockets") =>
             /\ pc' = "idle"
             /\ ret'.waited = call.totalWaitMs
             /\ (call.op # "ResolveExtended" /\ ~AllDone(call)) =>
                    (ret'.value = "?" /\ ret'.status = ErrNone)]_vars

C27_Witness ==
    /\ Returned /\ ret.exit = "nosockets" /\ ret.op \in {"Resolve", "Reverse"}
    /\ ret.forced # {} /\ ret.value = "?"
    /\ ret.waited < ret.budget

ZeroBudgetReturned == Returned /\ ret.path = "manual" /\ ret.budget = 0

\* C29 as stated: with a budget of 0 the loop body never runs and every
\* query ends as the sentinel: Resolve and Reverse return "?" and
\* ResolveExtended returns zero records.
C29_ZeroBudgetAllSentinel ==
    ZeroBudgetReturned =>
        /\ ret.exit = "condition" /\ ret.waited = 0
        /\ ret.op \in {"Resolve", "Reverse"} => ret.value = "?"
        /\ ret.op = "ResolveExtended" => ret.records = <<>>

\* C29 amended: with a budget of 0 the loop is left from its condition
\* before any wait or processing, and what is returned is what the queries
\* held when they had been issued: a single-answer lookup still pending
\* returns "?", one already completed during issuance returns that
\* completion's value, and ResolveExtended returns exactly the records
\* delivered during issuance.
C29_ZeroBudgetForcesPending ==
    /\ [][(pc = "loop" /\ call.timeoutMs = 0) =>
             (pc' = "after" /\ call' = [call EXCEPT !.exit = "condition"])]_vars
    /\ [][(pc = "after" /\ call.timeoutMs = 0) =>
             /\ pc' = "idle" /\ ret'.status = ErrNone
             /\ ret'.exit = "condition" /\ ret'.waited = 0
             /\ call.op # "ResolveExtended" =>
                    ret'.value = IF AllDone(call) THEN call.value ELSE "?"
             /\ call.op = "ResolveExtended" =>
                    /\ ret'.records = call.records
                    /\ ret'.value = DNSRecordsToJson(call.text, call.records)]_vars

C29_Witness ==
    /\ ZeroBudgetReturned /\ ret.op \in {"Resolve", "Reverse"}
    /\ ret.forced # {} /\ ret.value = "?" /\ ret.exit = "condition"

\* a single-answer query forced to "?" after the loop is returned as "?" and
\* is not counted as answered, although the teardown ran its callback
ForcedStaysSentinel ==
    (SingleReturned /\ ret.path = "manual" /\ ret.forced # {}) =>
        /\ ret.value = "?"
        /\ ret.forced \cap ret.answered = {}
        /\ ret.forced \subseteq ret.done

\* the session of a call lives through issuance and the whole loop and is
\* destroyed by the step that follows the loop, which also does the forcing
TeardownAfterForcing ==
    /\ []((pc \in SessionPositions) =>
            /\ call.channel # NullChannel
            /\ call.created = 1 /\ call.destroyed = 0 /\ call.forced = {})
    /\ []((pc \in SessionPositions \ {"after"}) => call.exit = "none")
    /\ [][(pc = "after") =>
             /\ call.exit # "none" /\ pc' = "idle"
             /\ ret'.destroyed = 1
             /\ ret'.forced = IF call.op = "ResolveExtended" THEN {}
                              ELSE PendingQueries(call)]_vars

\* C30 as stated: a forced "?" is what the caller gets in spite of the
\* teardown callback, the session is torn down only after the loop and the
\* forcing, and an answer enters the result only by being processed inside
\* the loop.
C30_AnswersOnlyFromLoop ==
    /\ []ForcedStaysSentinel
    /\ TeardownAfterForcing
    /\ [][(pc \in SessionPositions /\ ~(call'.answered \subseteq call.answered))
             => pc = "process"]_vars

\* C30 amended: a forced "?" is what the caller gets in spite of the
\* teardown callback, the session is torn down only after the loop and the
\* forcing, and the answers in the result are exactly those a callback had
\* delivered before the loop was left (while the query was issued or inside
\* the loop): nothing that arrives later appears.
C30_TerminalFinal ==
    /\ []ForcedStaysSentinel
    /\ TeardownAfterForcing
    /\ [][(pc \in SessionPositions /\ ~(call'.answered \subseteq call.answered))
             => pc \in {"issue", "process"}]_vars
    /\ [][(pc = "after") =>
             /\ ret'.answered = call.answered
             /\ ret'.records = call.records
             /\ call.op # "ResolveExtended" =>
                    ret'.value = IF AllDone(call) THEN call.value ELSE "?"]_vars

C30_Witness ==
    /\ SingleReturned /\ ret.path = "manual" /\ ret.forced # {}
    /\ ret.forced \subseteq ret.done /\ ret.value = "?"
    /\ ret.destroyed = 1 /\ ret.exit = "condition" /\ ret.waited > 0

\* record i of a list stems from entry i of the answers delivered: it has the
\* kind of the query that was answered, the entry's wire type is that kind
\* and its value is the entry's rendering
RecordsFromEntries(records, entries) ==
    /\ Len(records) = Len(entries)
    /\ \A i \in 1 .. Len(records) :
          /\ records[i][1] = entries[i][1]
          /\ entries[i][2].type = records[i][1]
          /\ entries[i][2].parsed
          /\ records[i][2] = RenderRR(records[i][1], entries[i][2])
          /\ records[i][2] # ""

\* C31: every record of a ResolveExtended call on the custom path has the
\* kind of the query whose callback appended it and stems from an answer
\* entry whose wire type is that kind; entries of another type in the same
\* answer add nothing, and no entry is emitted twice (there are exactly as
\* many records as matching usable entries were delivered).
C31_RecordsMatchQueryKind ==
    /\ []((pc \in SessionPositions /\ call.op = "ResolveExtended") =>
            RecordsFromEntries(call.records, call.entries))
    /\ []((ExtendedReturned /\ ret.path = "manual") =>
            RecordsFromEntries(ret.records, ret.entries))
    /\ [][(pc \in SessionPositions /\ call.op = "ResolveExtended"
           /\ pc' \in SessionPositions /\ call'.records # call.records) =>
             \E kind \in KindSet \ call.done :
                /\ call'.done = call.done \cup {kind}
                /\ kind \in IssuedSet(call')
                /\ Len(call'.records) > Len(call.records)
                /\ SubSeq(call'.records, 1, Len(call.records)) = call.records
                /\ \A i \in Len(call.records) + 1 .. Len(call'.records) :
                      call'.records[i][1] = kind]_vars

\* the server answered the A query with one entry and the MX query with two
C31_Witness ==
    /\ ExtendedReturned /\ ret.path = "manual"
    /\ ret.answered = {"A", "MX"}
    /\ Len(ret.records) = 3
    /\ Cardinality(OfType(ret.records, "MX")) = 2

\* the JSON text of the first n records, built from the front
JsonElement(r) == "{\"type\":\"" \o r[1] \o "\",\"value\":\"" \o r[2] \o "\"}"
RECURSIVE JsonPrefix(_, _)
JsonPrefix(records, n) ==
    IF n = 0 THEN ""
    ELSE JsonPrefix(records, n - 1) \o (IF n > 1 THEN "," ELSE "")
         \o JsonElement(records[n])

\* the records of one kind are next to each other
Contiguous(records) ==
    \A i, j \in 1 .. Len(records) :
        (i < j /\ records[i][1] = records[j][1]) =>
            \A k \in i .. j : records[k][1] = records[i][1]

\* C32: the records of a ResolveExtended call stay in the order they were
\* appended: a completing query puts its records behind all records of the
\* queries completed before it (whatever their dispatch order), the records of
\* one query are contiguous and in the order of the answer's entries, and the
\* JSON text holds the hostname and one {type,value} element per record in
\* that order.
C32_CompletionOrder ==
    /\ [][(pc \in SessionPositions /\ call.op = "ResolveExtended"
           /\ pc' \in SessionPositions) =>
             /\ Len(call'.records) >= Len(call.records)
             /\ SubSeq(call'.records, 1, Len(call.records)) = call.records
             /\ \A i \in Len(call.records) + 1 .. Len(call'.records) :
                   call'.records[i][1] \in call'.done \ call.done]_vars
    /\ []((ExtendedReturned /\ ret.path = "manual") =>
            /\ Contiguous(ret.records)
            /\ RecordsFromEntries(ret.records, ret.entries)
            /\ ret.value = "{\"hostname\":\"" \o ret.arg[1] \o "\",\"records\":["
                            \o JsonPrefix(ret.records, Len(ret.records)) \o "]}")

\* the MX query was completed before the A query, which was dispatched first,
\* and its two entries are in the output in the order of the answer
C32_Witness ==
    /\ ExtendedReturned /\ ret.path = "manual"
    /\ ret.records = <<<<"MX", "20 alt.example">>, <<"MX", "10 mail.example">>,
                       <<"A", "93.184.216.34">>>>

\* a resolving call has returned from the system-resolver branch
NativeReturned == Returned /\ ret.op \in ResolvingOps /\ ret.path = "native"

\* the budgets a call can run with
Budgets == (0 .. MaxTimeoutArg) \cup {DEFAULT_TIMEOUT}

\* C33: on the system-resolver path no timeout is enforced: the call never
\* enters the wait loop (no session, no query, no elapsed time) and returns
\* in the step that calls the OS resolver, and its result does not depend on
\* timeoutMs: for the same function, argument and resolver answers, the
\* status, text and records are the same under every budget.
C33_NativeIgnoresTimeout ==
    /\ []((pc \in SessionPositions) => ~UsesSystemResolver(call))
    /\ [](NativeReturned =>
            /\ ret.status = ErrNone
            /\ ret.queries = 0 /\ ret.waited = 0 /\ ret.exit = "none"
            /\ ret.created = 0 /\ ret.forced = {})
    /\ [][(pc = "dispatch" /\ UsesSystemResolver(call)) =>
             /\ pc' = "idle"
             /\ ret'.os \in OsAnswers(call)
             /\ ret' = NativeResult(call, ret'.os)
             /\ \A ms \in Budgets :
                   LET other == NativeResult([call EXCEPT !.timeoutMs = ms], ret'.os)
                   IN /\ other.status = ret'.status
                      /\ other.value = ret'.value
                      /\ other.records = ret'.records]_vars

\* a native Resolve with a budget of 0 ms returned the resolver's address
C33_Witness ==
    /\ NativeReturned /\ ret.op = "Resolve"
    /\ ret.budget = 0 /\ ret.value = "93.184.216.34"

\* C34: a resolving call destroys the session it created exactly once before
\* it returns, on every way out (after the loop, whether it ended by an
\* answer, the budget, no sockets or a select error; after a server list
\* the session rejects; after an invalid reverse address), it creates a
\* session only on the custom path and at most one, and no step of a
\* resolving call changes the persistent binding g_channel.
C34_SessionsDestroyedOnce ==
    /\ []((Returned /\ ret.op \in ResolvingOps) =>
            /\ ret.created <= 1
            /\ ret.destroyed = ret.created
            /\ ret.path = "manual" => ret.created = 1
            /\ ret.path = "native" => ret.created = 0)
    /\ []((pc \in SessionPositions) =>
            (call.created = 1 /\ call.destroyed = 0 /\ call.channel # NullChannel))
    /\ []((pc \notin SessionPositions) => call.channel = NullChannel)
    /\ [][(pc # "idle" \/ EnterStep) =>
             (g_channel' = g_channel /\ libRefs' = libRefs)]_vars

\* a Reverse call on the custom path was refused for its address after it
\* had created its session, which it destroyed; the binding is still there
C34_Witness ==
    /\ Returned /\ ret.op = "Reverse" /\ ret.status = ErrInvalidInput
    /\ ret.snap # "" /\ ret.created = 1 /\ ret.destroyed = 1
    /\ g_channel # NullChannel

\* C35: library setup and cleanup stay balanced over every sequence of
\* calls: the number of setups not yet matched by a cleanup is 1 while the
\* engine is initialized and 0 while it is not; a setup is run only by an
\* Initialize that takes the engine from uninitialized to initialized, a
\* cleanup only by an Uninitialize that takes it from initialized to
\* uninitialized, and no other step runs either.
C35_LibraryBalanced ==
    /\ [](libRefs = IF g_dnsInitialized THEN 1 ELSE 0)
    /\ [][libRefs' # libRefs =>
             \/ /\ libRefs' = libRefs + 1
                /\ ~g_dnsInitialized /\ g_dnsInitialized'
                /\ ret'.op = "Initialize" /\ ret'.lib = "init"
             \/ /\ libRefs' = libRefs - 1
                /\ g_dnsInitialized /\ ~g_dnsInitialized'
                /\ ret'.op = "Uninitialize" /\ ret'.lib = "cleanup"]_vars
    /\ [][g_dnsInitialized' # g_dnsInitialized => libRefs' # libRefs]_vars
    /\ [][(SetServerStep \/ pc # "idle" \/ EnterStep) => libRefs' = libRefs]_vars

\* an Uninitialize has run the cleanup that matches the setup of the
\* Initialize before it
C35_Witness ==
    /\ Returned /\ ret.op = "Uninitialize" /\ ret.lib = "cleanup"
    /\ libRefs = 0 /\ ~g_dnsInitialized

\* C36: in v0.4 the wait of a Do_DNS_Resolve / Do_DNS_Reverse call is held
\* to 3 seconds: totalWaitMs never exceeds 3000 ms while the call waits, and
\* the call returns with at most 3000 ms waited, whatever intervals the
\* session reports.
C36_V04WaitWithinThreeSeconds ==
    /\ (pc \in V04Positions) => call.totalWaitMs <= maxWaitMs
    /\ (Returned /\ ret.op \in V04Ops) => ret.waited <= maxWaitMs

====
